---- MODULE Spec2Model ----
(***************************************************************************)
(* gohumanloop: DefaultHumanLoopManager (core/manager.py) on top of the    *)
(* BaseProvider request store (providers/base.py) with the two channel     *)
(* implementations TerminalProvider and EmailProvider.                     *)
(*                                                                         *)
(* The program runs on one asyncio event loop: a step of the model is the   *)
(* code a coroutine executes between two suspension points (an await that  *)
(* really yields: asyncio.sleep, run_in_executor).  Time is abstracted:    *)
(* a sleeping timer may wake at any moment.                                *)
(***************************************************************************)
EXTENDS Integers, Sequences, FiniteSets, TLC

VARIABLES
    providers,               \* manager.providers: provider id -> provider
    default_provider_id,     \* manager.default_provider_id
    callbacks,               \* manager._callbacks: set of keys with a callback
    m_timeout_tasks,         \* manager._timeout_tasks: key -> timer handle
    m_timers,                \* the manager's sleeping timeout_task coroutines
    task_conversations,      \* manager._task_conversations: task -> set of convs
    m_conversation_requests, \* manager._conversation_requests: conv -> list
    request_task,            \* manager._request_task: key -> task
    waiters,                 \* _wait_for_result loops sleeping between polls
    inflight,                \* manager calls suspended in EmailProvider._send_email
    requests,                \* provider._requests: p -> (key -> request_info)
    conversations,           \* provider._conversations: p -> (conv -> info)
    conversation_requests,   \* provider._conversation_requests: p -> (conv -> list)
    p_timeout_tasks,         \* provider._timeout_tasks: p -> (key -> handle)
    p_timers,                \* the providers' sleeping timeout_task coroutines
    handlers,                \* channel background tasks: key -> position
    nextId,                  \* next uuid4 request id to be generated
    cb_calls,                \* notifications delivered to each key's callback
    lastOp                   \* the last completed call and what it returned

mvars == <<providers, default_provider_id, callbacks, m_timeout_tasks, m_timers,
           task_conversations, m_conversation_requests, request_task>>
pvars == <<requests, conversations, conversation_requests, p_timeout_tasks,
           p_timers, handlers, nextId>>
vars == <<mvars, pvars, waiters, inflight, cb_calls, lastOp>>

----------------------------------------------------------------------------
(* Bounds of the exploration *)
MaxReq == 2      \* request ids generated in one run
MaxGen == 2      \* timer handles created per key and registry (1 + renewals)
MaxCalls == 2    \* notifications of one kind counted per callback
MaxLen == 2      \* request ids recorded by the manager for one conversation

(* Input domains *)
ProviderIds == {"term", "mail"}
Convs == {"c1", "c2"}
Tasks == {"t1", "t2"}
Timeouts == {0, 5}            \* 0: timeout=None
EmptyId == 0                  \* request_id "" of an ERROR result
Keys == Convs \X (0..MaxReq)

HumanLoopType == {"APPROVAL", "INFORMATION", "CONVERSATION"}
HumanLoopStatus == {"PENDING", "INPROGRESS", "APPROVED", "REJECTED",
                    "COMPLETED", "EXPIRED", "ERROR", "CANCELLED"}

----------------------------------------------------------------------------
(* Generic helpers *)
Put(f, k, v) == [x \in DOMAIN f \cup {k} |-> IF x = k THEN v ELSE f[x]]

Del(f, k) == [x \in DOMAIN f \ {k} |-> f[x]]

MaxOf(S) == IF S = {} THEN 0 ELSE CHOOSE m \in S : \A x \in S : x <= m

RECURSIVE RemoveFirst(_, _)
RemoveFirst(s, e) ==
    IF s = <<>> THEN <<>>
    ELSE IF Head(s) = e THEN Tail(s)
    ELSE <<Head(s)>> \o RemoveFirst(Tail(s), e)

SeqElems(s) == {s[i] : i \in 1..Len(s)}

Bump(n) == IF n < MaxCalls THEN n + 1 ELSE n

----------------------------------------------------------------------------
(* BaseProvider: the request store *)

NewRequestAsConversation(task_id, loop_type, timeout) ==
    [task_id |-> task_id, loop_type |-> "CONVERSATION", status |-> "PENDING",
     timeout |-> timeout, response |-> "none", responded_by |-> "none",
     responded_at |-> 0, error |-> "none"]

\* the request_info dict written by _store_request (context, metadata and
\* created_at are opaque payload and left out); the keys response,
\* responded_by, responded_at and error are absent until written ("none", 0)
NewRequest(task_id, loop_type, timeout) ==
    [task_id |-> task_id, loop_type |-> loop_type, status |-> "PENDING",
     timeout |-> timeout, response |-> "none", responded_by |-> "none",
     responded_at |-> 0, error |-> "none"]

StoreRequestKeepLatest(p, c, r, task_id, loop_type, timeout) ==
    /\ requests' = [requests EXCEPT ![p] =
                       Put(@, <<c, r>>, NewRequest(task_id, loop_type, timeout))]
    /\ conversations' = [conversations EXCEPT ![p] =
           IF c \in DOMAIN @ THEN @
           ELSE Put(@, c, [task_id |-> task_id, latest_request_id |-> r])]
    /\ conversation_requests' =
           [conversation_requests EXCEPT ![p][c] = Append(@, r)]

StoreRequestReplacing(p, c, r, task_id, loop_type, timeout) ==
    /\ requests' = [requests EXCEPT ![p] =
                       Put(@, <<c, r>>, NewRequest(task_id, loop_type, timeout))]
    /\ conversations' = [conversations EXCEPT ![p] =
           IF c \in DOMAIN @
           THEN [@ EXCEPT ![c].latest_request_id = r]
           ELSE Put(@, c, [task_id |-> task_id, latest_request_id |-> r])]
    /\ conversation_requests' =
           [conversation_requests EXCEPT ![p][c] = <<r>>]

\* BaseProvider._store_request
StoreRequest(p, c, r, task_id, loop_type, timeout) ==
    /\ requests' = [requests EXCEPT ![p] =
                       Put(@, <<c, r>>, NewRequest(task_id, loop_type, timeout))]
    /\ conversations' = [conversations EXCEPT ![p] =
           IF c \in DOMAIN @
           THEN [@ EXCEPT ![c].latest_request_id = r]
           ELSE Put(@, c, [task_id |-> task_id, latest_request_id |-> r])]
    /\ conversation_requests' =
           [conversation_requests EXCEPT ![p][c] = Append(@, r)]

NotFoundSilent(c, r) ==
    [conversation_id |-> c, request_id |-> r, loop_type |-> "CONVERSATION",
     status |-> "PENDING", response |-> "none", responded_by |-> "none",
     responded_at |-> 0, error |-> "none"]

\* the HumanLoopResult of check_request_status
NotFound(c, r) ==
    [conversation_id |-> c, request_id |-> r, loop_type |-> "CONVERSATION",
     status |-> "ERROR", response |-> "none", responded_by |-> "none",
     responded_at |-> 0, error |-> "not found"]

ResultOf(reqs, p, c, r) ==
    IF <<c, r>> \notin DOMAIN reqs[p] THEN NotFound(c, r)
    ELSE LET info == reqs[p][<<c, r>>] IN
         [conversation_id |-> c, request_id |-> r,
          loop_type |-> info.loop_type, status |-> info.status,
          response |-> info.response, responded_by |-> info.responded_by,
          responded_at |-> info.responded_at, error |-> info.error]

check_request_status(p, c, r) == ResultOf(requests, p, c, r)

\* a fresh handle for the timer of key in provider p's registry
FreshP(p, key) ==
    1 + MaxOf((IF key \in DOMAIN p_timeout_tasks[p]
               THEN {p_timeout_tasks[p][key]} ELSE {})
              \cup {t.gen : t \in {x \in p_timers : x.p = p /\ x.key = key}})

FreshM(key) ==
    1 + MaxOf((IF key \in DOMAIN m_timeout_tasks
               THEN {m_timeout_tasks[key]} ELSE {})
              \cup {t.gen : t \in {x \in m_timers : x.key = key}})

PTimer(p, key, timeout) ==
    [p |-> p, key |-> key, gen |-> FreshP(p, key), timeout |-> timeout]

\* task.cancel() on the handle registered for key, then del registry[key]
PCancelled(timers, p, key) ==
    IF key \in DOMAIN p_timeout_tasks[p]
    THEN {t \in timers : ~(t.p = p /\ t.key = key
                           /\ t.gen = p_timeout_tasks[p][key])}
    ELSE timers

MCancelledNone(timers, key) == timers

MCancelled(timers, key) ==
    IF key \in DOMAIN m_timeout_tasks
    THEN {t \in timers : ~(t.key = key /\ t.gen = m_timeout_tasks[key])}
    ELSE timers

\* BaseProvider._create_timeout_task: create_task(timeout_task()), register it
ProvCreateTimeoutTask(p, key, timeout) ==
    /\ FreshP(p, key) <= MaxGen
    /\ p_timers' = p_timers \cup {PTimer(p, key, timeout)}
    /\ p_timeout_tasks' = [p_timeout_tasks EXCEPT ![p] =
                              Put(@, key, FreshP(p, key))]

\* the background task started for a request: TerminalProvider's
\* _process_terminal_interaction waiting in input(), EmailProvider's
\* _check_emails about to test its loop condition
NewHandler(p, c) ==
    [p |-> p, c |-> c, pc |-> IF p = "term" THEN "input" ELSE "check",
     reg |-> (p = "mail")]

----------------------------------------------------------------------------
(* TerminalProvider and EmailProvider: creating requests *)

\* TerminalProvider.request_humanloop / continue_humanloop after the id is
\* generated: store, start the input task, arm the timer
TerminalCreate(c, r, task_id, loop_type, timeout) ==
    /\ StoreRequest("term", c, r, task_id, loop_type, timeout)
    /\ handlers' = Put(handlers, r, NewHandler("term", c))
    /\ IF timeout # 0
       THEN ProvCreateTimeoutTask("term", <<c, r>>, timeout)
       ELSE UNCHANGED <<p_timers, p_timeout_tasks>>
    /\ nextId' = nextId + 1

\* EmailProvider.request_humanloop / continue_humanloop up to the await of
\* _send_email: the request is stored, nothing else is started yet
EmailCreate(c, r, task_id, loop_type, timeout) ==
    /\ StoreRequest("mail", c, r, task_id, loop_type, timeout)
    /\ nextId' = nextId + 1
    /\ UNCHANGED <<handlers, p_timers, p_timeout_tasks>>

\* EmailProvider: "Recipient email address is missing", the generated id is
\* returned in an ERROR result and nothing is stored
EmailNoRecipient ==
    /\ nextId' = nextId + 1
    /\ UNCHANGED <<requests, conversations, conversation_requests,
                   handlers, p_timers, p_timeout_tasks>>

EmailSentAlwaysArms(a, success) ==
    /\ handlers' = Put(handlers, a.r, NewHandler("mail", a.c))
    /\ IF a.timeout # 0
       THEN ProvCreateTimeoutTask("mail", <<a.c, a.r>>, a.timeout)
       ELSE UNCHANGED <<p_timers, p_timeout_tasks>>
    /\ requests' = IF success THEN requests
                   ELSE [requests EXCEPT !["mail"][<<a.c, a.r>>].status = "ERROR"]
    /\ UNCHANGED <<conversations, conversation_requests, nextId>>

\* EmailProvider after _send_email returned
EmailSent(a, success) ==
    /\ IF success
       THEN /\ handlers' = Put(handlers, a.r, NewHandler("mail", a.c))
            /\ IF a.timeout # 0
               THEN ProvCreateTimeoutTask("mail", <<a.c, a.r>>, a.timeout)
               ELSE UNCHANGED <<p_timers, p_timeout_tasks>>
            /\ UNCHANGED requests
       ELSE /\ requests' = [requests EXCEPT !["mail"][<<a.c, a.r>>] =
                   [@ EXCEPT !.status = "ERROR",
                             !.error = "Failed to send email"]]
            /\ UNCHANGED <<handlers, p_timers, p_timeout_tasks>>
    /\ UNCHANGED <<conversations, conversation_requests, nextId>>

----------------------------------------------------------------------------
(* DefaultHumanLoopManager *)

ResolveProvider(pid) == IF pid = "" THEN default_provider_id ELSE pid

ProviderFound(pid) ==
    ResolveProvider(pid) # "" /\ ResolveProvider(pid) \in DOMAIN providers

\* provider = self.providers[provider_id]
ProviderOf(pid) == providers[ResolveProvider(pid)]

\* what the caller observes of a completed call: the value returned (ret,
\* resp), whether it was a blocking wait, whether on_humanloop_error was
\* invoked, and the status the provider held for the key when it started
Returned(op, c, r, p, ret, resp, blocking, err, was) ==
    [op |-> op, c |-> c, r |-> r, p |-> p, ret |-> ret, resp |-> resp,
     blocking |-> blocking, err |-> err, was |-> was]

RaiseValueErrorDefaulting(op, c, r, pid) ==
    /\ lastOp' = Returned(op, c, r, default_provider_id, "defaulted", "none",
                          FALSE, FALSE, "none")
    /\ UNCHANGED <<mvars, pvars, waiters, inflight, cb_calls>>

\* raise ValueError(f"Provider '{provider_id}' not found")
RaiseValueError(op, c, r, pid) ==
    /\ lastOp' = Returned(op, c, r, ResolveProvider(pid), "ValueError",
                          "none", FALSE, FALSE, "none")
    /\ UNCHANGED <<mvars, pvars, waiters, inflight, cb_calls>>

\* _task_conversations is a dict in insertion order: a sequence of entries
HasTask(tc, t) == \E i \in 1..Len(tc) : tc[i].task = t

AddConversation(tc, t, c) ==
    IF HasTask(tc, t)
    THEN [i \in 1..Len(tc) |->
            IF tc[i].task = t THEN [tc[i] EXCEPT !.convs = @ \cup {c}]
            ELSE tc[i]]
    ELSE Append(tc, [task |-> t, convs |-> {c}])

\* the loop of continue_humanloop: the first task whose set holds c
TaskOf(tc, c) ==
    LET hits == {i \in 1..Len(tc) : c \in tc[i].convs} IN
    IF hits = {} THEN "none"
    ELSE tc[CHOOSE i \in hits : \A j \in hits : i <= j].task

ListOf(cr, c) == IF c \in DOMAIN cr THEN cr[c] ELSE <<>>

NoCalls == [update |-> 0, progress |-> 0, timeout |-> 0]

\* _trigger_update_callback on registry cbs; raises: on_humanloop_update
\* raised, so on_humanloop_error is invoked (err) and the removal is skipped
TriggerUpdateCallback(cbs, calls, key, status, raises) ==
    IF key \notin cbs THEN [cbs |-> cbs, calls |-> calls, err |-> FALSE]
    ELSE LET inv == IF status \in {"PENDING", "INPROGRESS"}
                    THEN [calls EXCEPT ![key].progress = Bump(@)]
                    ELSE [calls EXCEPT ![key].update = Bump(@)]
         IN IF raises
            THEN [cbs |-> cbs, calls |-> inv, err |-> TRUE]
            ELSE [cbs |-> IF status \notin {"PENDING", "INPROGRESS"}
                          THEN cbs \ {key} ELSE cbs,
                  calls |-> inv, err |-> FALSE]

PropagatesUncaught(raised) == raised

\* whether an exception raised in on_humanloop_update (or in the
\* on_humanloop_error that follows it) leaves _trigger_update_callback:
\* "except Exception" catches the first, the bare "except: pass" the second
Propagates(raised) == FALSE

\* what the caller of a dispatching call gets: the provider's status
DispatchReturn(raised, status) ==
    IF Propagates(raised) THEN "Exception" ELSE status

WaitFinishedAlways(status) == TRUE

WaitFinishedNever(status) == FALSE

\* the test of _wait_for_result that ends the poll loop
WaitFinished(status) == status # "PENDING"

CheckDispatchesFinal(status) == status \notin {"PENDING", "INPROGRESS"}

CheckDispatchesPending(status) == status = "PENDING"

\* the test of check_request_status that dispatches the callback
CheckDispatches(status) == status # "PENDING"

MTimer(key, timeout, p, cb) ==
    [key |-> key, gen |-> FreshM(key), timeout |-> timeout, p |-> p,
     cb |-> cb]

\* DefaultHumanLoopManager._create_timeout_task
MgrCreateTimeoutTask(key, timeout, p, cb) ==
    /\ FreshM(key) <= MaxGen
    /\ m_timers' = m_timers \cup {MTimer(key, timeout, p, cb)}
    /\ m_timeout_tasks' = Put(m_timeout_tasks, key, FreshM(key))

\* request_humanloop / continue_humanloop after the provider returned a
\* Result with request_id r: indices, callback, timer, first poll
PostCall(a, r) ==
    LET key == <<a.c, r>>
        cbs1 == IF a.cb THEN callbacks \cup {key} ELSE callbacks
        res == ResultOf(requests', a.p, a.c, r)
        owner == TaskOf(task_conversations, a.c)
    IN
    /\ task_conversations' =
         IF a.op = "request_humanloop"
         THEN AddConversation(task_conversations, a.task_id, a.c)
         ELSE task_conversations
    /\ Len(ListOf(m_conversation_requests, a.c)) < MaxLen
    /\ m_conversation_requests' =
         Put(m_conversation_requests, a.c,
             Append(ListOf(m_conversation_requests, a.c), r))
    /\ request_task' =
         IF a.op = "request_humanloop" THEN Put(request_task, key, a.task_id)
         ELSE IF owner # "none" THEN Put(request_task, key, owner)
         ELSE request_task
    /\ IF a.timeout # 0
       THEN MgrCreateTimeoutTask(key, a.timeout, a.p, a.cb)
       ELSE UNCHANGED <<m_timers, m_timeout_tasks>>
    /\ UNCHANGED <<providers, default_provider_id>>
    /\ IF a.blocking /\ WaitFinished(res.status)
       THEN \E raises \in BOOLEAN :
              LET d == TriggerUpdateCallback(cbs1, cb_calls, key,
                                             res.status, raises) IN
              /\ callbacks' = d.cbs
              /\ cb_calls' = d.calls
              /\ waiters' = waiters
              /\ lastOp' = Returned(a.op, a.c, r, a.p,
                                    DispatchReturn(d.err, res.status),
                                    res.response, TRUE, d.err, res.status)
       ELSE /\ callbacks' = cbs1
            /\ cb_calls' = cb_calls
            /\ IF a.blocking
               THEN /\ waiters' = waiters \cup
                          {[op |-> a.op, c |-> a.c, r |-> r, p |-> a.p]}
                    /\ lastOp' = lastOp
               ELSE /\ waiters' = waiters
                    /\ lastOp' = Returned(a.op, a.c, r, a.p, "request_id",
                                          "none", FALSE, FALSE, "none")

Call(op, task_id, c, loop_type, cb, p, timeout, blocking, r) ==
    [op |-> op, task_id |-> task_id, c |-> c, loop_type |-> loop_type,
     cb |-> cb, p |-> p, timeout |-> timeout, blocking |-> blocking, r |-> r]

\* manager.request_humanloop; pool: the ids uuid4 may still generate
MgrRequestHumanloop(pool, task_id, c, loop_type, cb, pid, timeout, blocking, recipient) ==
    LET p == ProviderOf(pid)
        a == Call("request_humanloop", task_id, c, loop_type, cb, p, timeout,
                  blocking, nextId)
    IN
    IF ~ProviderFound(pid) THEN RaiseValueError("request_humanloop", c, 0, pid)
    ELSE /\ nextId \in pool
         /\ IF p = "term"
            THEN /\ TerminalCreate(c, nextId, task_id, loop_type, timeout)
                 /\ PostCall(a, nextId)
                 /\ inflight' = inflight
            ELSE IF ~recipient
            THEN /\ EmailNoRecipient
                 /\ PostCall(a, nextId)
                 /\ inflight' = inflight
            ELSE /\ EmailCreate(c, nextId, task_id, loop_type, timeout)
                 /\ inflight' = inflight \cup {a}
                 /\ UNCHANGED <<mvars, waiters, cb_calls, lastOp>>

\* manager.continue_humanloop
MgrContinueHumanloop(pool, c, cb, pid, timeout, blocking, recipient) ==
    LET p == ProviderOf(pid)
        a == Call("continue_humanloop", "none", c, "CONVERSATION", cb, p,
                  timeout, blocking, nextId)
    IN
    IF ~ProviderFound(pid) THEN RaiseValueError("continue_humanloop", c, 0, pid)
    ELSE IF c \notin DOMAIN conversations[p]
    THEN \* the provider returns ERROR with request_id ""
         /\ UNCHANGED pvars
         /\ PostCall(a, EmptyId)
         /\ inflight' = inflight
    ELSE /\ nextId \in pool
         /\ IF p = "term"
            THEN /\ TerminalCreate(c, nextId, conversations[p][c].task_id,
                                   "CONVERSATION", timeout)
                 /\ PostCall(a, nextId)
                 /\ inflight' = inflight
            ELSE IF ~recipient
            THEN /\ EmailNoRecipient
                 /\ PostCall(a, nextId)
                 /\ inflight' = inflight
            ELSE /\ EmailCreate(c, nextId, conversations[p][c].task_id,
                                "CONVERSATION", timeout)
                 /\ inflight' = inflight \cup {a}
                 /\ UNCHANGED <<mvars, waiters, cb_calls, lastOp>>

\* _send_email returns inside EmailProvider.request/continue_humanloop and
\* the suspended manager call runs to its end
EmailSendDone(a, success) ==
    /\ a \in inflight
    /\ inflight' = inflight \ {a}
    /\ EmailSent(a, success)
    /\ PostCall(a, a.r)

\* manager.check_request_status
MgrCheckRequestStatus(c, r, pid) ==
    LET p == ProviderOf(pid)
        res == check_request_status(p, c, r)
    IN
    IF ~ProviderFound(pid)
    THEN RaiseValueError("check_request_status", c, r, pid)
    ELSE /\ \E raises \in BOOLEAN :
              LET d == IF <<c, r>> \in callbacks /\ CheckDispatches(res.status)
                       THEN TriggerUpdateCallback(callbacks, cb_calls,
                                                  <<c, r>>, res.status, raises)
                       ELSE [cbs |-> callbacks, calls |-> cb_calls,
                             err |-> FALSE]
              IN /\ callbacks' = d.cbs
                 /\ cb_calls' = d.calls
                 /\ lastOp' = Returned("check_request_status", c, r, p,
                                       DispatchReturn(d.err, res.status),
                                       res.response, FALSE, d.err, res.status)
         /\ UNCHANGED <<providers, default_provider_id, m_timeout_tasks,
                        m_timers, task_conversations, m_conversation_requests,
                        request_task, pvars, waiters, inflight>>

\* _wait_for_result wakes from asyncio.sleep(poll_interval) and polls; the
\* poll that still reads PENDING changes nothing
WaitPoll(w) ==
    LET res == check_request_status(w.p, w.c, w.r) IN
    /\ w \in waiters
    /\ WaitFinished(res.status)
    /\ waiters' = waiters \ {w}
    /\ \E raises \in BOOLEAN :
          LET d == TriggerUpdateCallback(callbacks, cb_calls, <<w.c, w.r>>,
                                         res.status, raises)
          IN /\ callbacks' = d.cbs
             /\ cb_calls' = d.calls
             /\ lastOp' = Returned(w.op, w.c, w.r, w.p,
                                   DispatchReturn(d.err, res.status),
                                   res.response, TRUE, d.err, res.status)
    /\ UNCHANGED <<providers, default_provider_id, m_timeout_tasks, m_timers,
                   task_conversations, m_conversation_requests, request_task,
                   pvars, inflight>>

\* EmailProvider.cancel_request's prologue: cancel and forget the mail checker
CancelChecker(h, p, c, rs) ==
    [r \in DOMAIN h |->
        IF p = "mail" /\ r \in rs /\ h[r].p = p /\ h[r].c = c /\ h[r].reg
        THEN [h[r] EXCEPT !.reg = FALSE,
                          !.pc = IF @ \in {"check", "fetch"}
                                 THEN "cancelled" ELSE @]
        ELSE h[r]]

CancelRequestFoundLive(p, key) ==
    key \in DOMAIN requests[p] /\ requests[p][key].status # "CANCELLED"

\* the return value of BaseProvider.cancel_request
CancelRequestFound(p, key) == key \in DOMAIN requests[p]

\* the requests BaseProvider.cancel_request writes CANCELLED to
CancelRequestWrites(p, key) == key \in DOMAIN requests[p]

ProvCancelRequestPurging(p, c, r) ==
    /\ handlers' = CancelChecker(handlers, p, c, {r})
    /\ p_timers' = PCancelled(p_timers, p, <<c, r>>)
    /\ p_timeout_tasks' = [p_timeout_tasks EXCEPT ![p] = Del(@, <<c, r>>)]
    /\ requests' = [requests EXCEPT ![p] = Del(@, <<c, r>>)]
    /\ UNCHANGED <<conversations, conversation_requests, nextId>>

\* BaseProvider.cancel_request (with EmailProvider's override)
ProvCancelRequest(p, c, r) ==
    LET key == <<c, r>> IN
    /\ handlers' = CancelChecker(handlers, p, c, {r})
    /\ p_timers' = PCancelled(p_timers, p, key)
    /\ p_timeout_tasks' = [p_timeout_tasks EXCEPT ![p] = Del(@, key)]
    /\ requests' = IF CancelRequestWrites(p, key)
                   THEN [requests EXCEPT ![p][key].status = "CANCELLED"]
                   ELSE requests
    /\ UNCHANGED <<conversations, conversation_requests, nextId>>

ConversationCancelsAny(status) == TRUE

\* the statuses BaseProvider.cancel_conversation downgrades
ConversationCancels(status) == status \in {"PENDING", "INPROGRESS"}

\* BaseProvider.cancel_conversation (with EmailProvider's override)
ProvCancelConversation(p, c) ==
    LET rs == SeqElems(conversation_requests[p][c])
        hit == {k \in DOMAIN requests[p] :
                   /\ k[1] = c /\ k[2] \in rs
                   /\ ConversationCancels(requests[p][k].status)}
    IN
    /\ handlers' = CancelChecker(handlers, p, c, rs)
    /\ IF c \notin DOMAIN conversations[p]
       THEN UNCHANGED <<requests, p_timers, p_timeout_tasks>>
       ELSE /\ requests' = [requests EXCEPT ![p] =
                   [k \in DOMAIN @ |->
                       IF k \in hit THEN [@[k] EXCEPT !.status = "CANCELLED"]
                       ELSE @[k]]]
            /\ p_timers' = {t \in p_timers :
                   ~(/\ t.p = p /\ t.key \in hit
                     /\ t.key \in DOMAIN p_timeout_tasks[p]
                     /\ t.gen = p_timeout_tasks[p][t.key])}
            /\ p_timeout_tasks' = [p_timeout_tasks EXCEPT ![p] =
                   [k \in DOMAIN @ \ hit |-> @[k]]]
    /\ UNCHANGED <<conversations, conversation_requests, nextId>>

Bool(b) == IF b THEN "true" ELSE "false"

\* manager.cancel_request
MgrCancelRequest(c, r, pid) ==
    LET p == ProviderOf(pid)
        key == <<c, r>>
    IN
    IF ~ProviderFound(pid) THEN RaiseValueError("cancel_request", c, r, pid)
    ELSE /\ m_timers' = MCancelled(m_timers, key)
         /\ m_timeout_tasks' = Del(m_timeout_tasks, key)
         /\ callbacks' = callbacks \ {key}
         /\ request_task' = Del(request_task, key)
         /\ m_conversation_requests' =
              IF c \in DOMAIN m_conversation_requests
              THEN [m_conversation_requests EXCEPT ![c] = RemoveFirst(@, r)]
              ELSE m_conversation_requests
         /\ ProvCancelRequest(p, c, r)
         /\ lastOp' = Returned("cancel_request", c, r, p,
                               Bool(CancelRequestFound(p, key)), "none", FALSE,
                               FALSE,
                               IF key \in DOMAIN requests[p]
                               THEN requests[p][key].status ELSE "none")
         /\ UNCHANGED <<providers, default_provider_id, task_conversations,
                        waiters, inflight, cb_calls>>

\* manager.cancel_conversation
MgrCancelConversation(c, pid) ==
    LET p == ProviderOf(pid)
        dropped == [i \in 1..Len(task_conversations) |->
                      [task_conversations[i] EXCEPT !.convs = @ \ {c}]]
    IN
    IF ~ProviderFound(pid) THEN RaiseValueError("cancel_conversation", c, 0, pid)
    ELSE /\ m_timers' = {t \in m_timers :
                ~(/\ t.key[1] = c /\ t.key \in DOMAIN m_timeout_tasks
                  /\ t.gen = m_timeout_tasks[t.key])}
         /\ m_timeout_tasks' = [k \in {x \in DOMAIN m_timeout_tasks : x[1] # c}
                                 |-> m_timeout_tasks[k]]
         /\ callbacks' = {k \in callbacks : k[1] # c}
         /\ task_conversations' = SelectSeq(dropped, LAMBDA e : e.convs # {})
         /\ request_task' =
              [k \in {x \in DOMAIN request_task :
                        ~(x[1] = c /\
                          x[2] \in SeqElems(ListOf(m_conversation_requests, c)))}
                 |-> request_task[k]]
         /\ m_conversation_requests' = Del(m_conversation_requests, c)
         /\ ProvCancelConversation(p, c)
         /\ lastOp' = Returned("cancel_conversation", c, 0, p,
                               Bool(c \in DOMAIN conversations[p]), "none",
                               FALSE, FALSE, "none")
         /\ UNCHANGED <<providers, default_provider_id, waiters, inflight,
                        cb_calls>>

----------------------------------------------------------------------------
(* Timeout tasks *)

TimerExpiresUnanswered(status) == status \in {"PENDING", "INPROGRESS"}

TimerExpiresNever(status) == FALSE

\* what timeout_task does with the status it reads after its sleep
TimerExpires(status) == status = "PENDING"

TimerRenews(status) == status = "INPROGRESS"

\* BaseProvider._create_timeout_task.timeout_task wakes up
ProvTimerFire(t) ==
    LET p == t.p
        key == t.key
        info == requests[p][key]
        rest == p_timers \ {t}
    IN
    /\ t \in p_timers
    /\ IF TimerExpires(info.status)
       THEN /\ requests' = [requests EXCEPT ![p][key] =
                   [@ EXCEPT !.status = "EXPIRED",
                             !.error = "Request timed out"]]
            /\ p_timers' = rest
            /\ UNCHANGED p_timeout_tasks
       ELSE IF TimerRenews(info.status)
       THEN /\ t.gen < MaxGen
            /\ p_timers' = PCancelled(rest, p, key) \cup
                   {[p |-> p, key |-> key, gen |-> t.gen + 1,
                     timeout |-> t.timeout]}
            /\ p_timeout_tasks' = [p_timeout_tasks EXCEPT ![p] =
                                      Put(@, key, t.gen + 1)]
            /\ UNCHANGED requests
       ELSE /\ p_timers' = rest
            /\ UNCHANGED <<requests, p_timeout_tasks>>
    /\ UNCHANGED <<conversations, conversation_requests, handlers, nextId,
                   mvars, waiters, inflight, cb_calls, lastOp>>

\* DefaultHumanLoopManager._create_timeout_task.timeout_task wakes up
MgrTimerFire(t) ==
    LET key == t.key
        res == check_request_status(t.p, key[1], key[2])
        rest == m_timers \ {t}
    IN
    /\ t \in m_timers
    /\ IF TimerExpires(res.status)
       THEN /\ cb_calls' = IF t.cb
                           THEN [cb_calls EXCEPT ![key].timeout = Bump(@)]
                           ELSE cb_calls
            /\ m_timers' = rest
            /\ UNCHANGED m_timeout_tasks
       ELSE IF TimerRenews(res.status)
       THEN /\ t.gen < MaxGen
            /\ m_timers' = MCancelled(rest, key) \cup
                   {[t EXCEPT !.gen = t.gen + 1]}
            /\ m_timeout_tasks' = Put(m_timeout_tasks, key, t.gen + 1)
            /\ UNCHANGED cb_calls
       ELSE /\ m_timers' = rest
            /\ UNCHANGED <<m_timeout_tasks, cb_calls>>
    /\ UNCHANGED <<providers, default_provider_id, callbacks,
                   task_conversations, m_conversation_requests, request_task,
                   pvars, waiters, inflight, lastOp>>

----------------------------------------------------------------------------
(* Channel background tasks *)

Answered(info, status, response, by) ==
    [info EXCEPT !.status = status, !.response = response,
                 !.responded_by = by, !.responded_at = 1]

TerminalInputs(loop_type) ==
    IF loop_type = "APPROVAL" THEN {"approve", "reject", "invalid"}
    ELSE IF loop_type = "INFORMATION" THEN {"text"}
    ELSE {"exit", "text"}

\* TerminalProvider._handle_*_interaction: input() returns
TerminalInput(r, input) ==
    LET h == handlers[r]
        key == <<h.c, r>>
        info == requests["term"][key]
    IN
    /\ r \in DOMAIN handlers
    /\ h.p = "term" /\ h.pc = "input"
    /\ input \in TerminalInputs(info.loop_type)
    /\ IF info.loop_type = "APPROVAL"
       THEN IF input = "approve"
            THEN /\ requests' = [requests EXCEPT !["term"][key] =
                        Answered(@, "APPROVED", "", "terminal_user")]
                 /\ handlers' = [handlers EXCEPT ![r].pc = "done"]
            ELSE /\ requests' = [requests EXCEPT
                                    !["term"][key].status = "INPROGRESS"]
                 /\ handlers' = [handlers EXCEPT ![r].pc =
                        IF input = "reject" THEN "reason" ELSE "input"]
       ELSE /\ requests' = [requests EXCEPT !["term"][key] =
                   Answered(@, IF info.loop_type = "CONVERSATION"
                                  /\ input # "exit"
                               THEN "INPROGRESS" ELSE "COMPLETED",
                            input, "terminal_user")]
            /\ handlers' = [handlers EXCEPT ![r].pc = "done"]
    /\ UNCHANGED <<conversations, conversation_requests, p_timeout_tasks,
                   p_timers, nextId, mvars, waiters, inflight, cb_calls,
                   lastOp>>

\* TerminalProvider._handle_approval_interaction: the rejection reason arrives
TerminalReason(r) ==
    LET h == handlers[r]
        key == <<h.c, r>>
    IN
    /\ r \in DOMAIN handlers
    /\ h.p = "term" /\ h.pc = "reason"
    /\ requests' = [requests EXCEPT !["term"][key] =
                       Answered(@, "REJECTED", "reason", "terminal_user")]
    /\ handlers' = [handlers EXCEPT ![r].pc = "done"]
    /\ UNCHANGED <<conversations, conversation_requests, p_timeout_tasks,
                   p_timers, nextId, mvars, waiters, inflight, cb_calls,
                   lastOp>>

\* the loop condition of EmailProvider._check_emails
CheckerContinues(p, key) ==
    key \in DOMAIN requests[p] /\ requests[p][key].status \in {"PENDING"}

\* EmailProvider._check_emails starts, or wakes from sleep(check_interval),
\* and tests its loop condition
EmailCheckLoop(r) ==
    LET h == handlers[r] IN
    /\ r \in DOMAIN handlers
    /\ h.p = "mail" /\ h.pc = "check"
    /\ handlers' = [handlers EXCEPT ![r].pc =
           IF CheckerContinues("mail", <<h.c, r>>) THEN "fetch" ELSE "done"]
    /\ UNCHANGED <<requests, conversations, conversation_requests,
                   p_timeout_tasks, p_timers, nextId, mvars, waiters,
                   inflight, cb_calls, lastOp>>

Mails(loop_type) ==
    IF loop_type = "APPROVAL" THEN {"none", "yes", "no", "garbled", "fail"}
    ELSE IF loop_type = "INFORMATION" THEN {"none", "yes", "fail"}
    ELSE {"none", "yes", "no", "fail"}

MailStatusUntyped(loop_type, mail) ==
    IF mail = "yes" THEN "COMPLETED"
    ELSE IF mail = "no" THEN "REJECTED" ELSE "unbound"

\* the status _process_email_response computes; "unbound" when the approval
\* mail holds no decision line and the local variable status is never bound
MailStatus(loop_type, mail) ==
    IF loop_type = "APPROVAL"
    THEN IF mail = "yes" THEN "APPROVED"
         ELSE IF mail = "no" THEN "REJECTED" ELSE "unbound"
    ELSE IF loop_type = "INFORMATION" THEN "COMPLETED"
    ELSE IF mail = "yes" THEN "COMPLETED" ELSE "INPROGRESS"

\* EmailProvider._check_emails: _fetch_emails_sync returns (mail) or raises
\* ("fail"), then _process_email_response
EmailFetched(r, mail) ==
    LET h == handlers[r]
        key == <<h.c, r>>
        info == requests["mail"][key]
        status == MailStatus(info.loop_type, mail)
    IN
    /\ r \in DOMAIN handlers
    /\ h.p = "mail" /\ h.pc = "fetch"
    /\ mail \in Mails(info.loop_type)
    /\ IF mail = "none"
       THEN /\ handlers' = [handlers EXCEPT ![r].pc = "check"]
            /\ UNCHANGED <<requests, p_timers, p_timeout_tasks>>
       ELSE IF mail = "fail" \/ status = "unbound"
       THEN /\ requests' = [requests EXCEPT !["mail"][key] =
                   [@ EXCEPT !.status = "ERROR",
                             !.error = "Failed to check emails"]]
            /\ handlers' = [handlers EXCEPT ![r].pc = "done"]
            /\ UNCHANGED <<p_timers, p_timeout_tasks>>
       ELSE /\ requests' = [requests EXCEPT !["mail"][key] =
                   Answered(@, status, mail, "mail_sender")]
            /\ p_timers' = PCancelled(p_timers, "mail", key)
            /\ p_timeout_tasks' = [p_timeout_tasks EXCEPT !["mail"] =
                                      Del(@, key)]
            /\ handlers' = [handlers EXCEPT ![r].pc = "check"]
    /\ UNCHANGED <<conversations, conversation_requests, nextId, mvars,
                   waiters, inflight, cb_calls, lastOp>>

----------------------------------------------------------------------------
(* Specification *)

\* DefaultHumanLoopManager([TerminalProvider("term"), EmailProvider("mail")])
Init ==
    /\ providers = [p \in ProviderIds |-> p]
    /\ default_provider_id = "term"
    /\ callbacks = {}
    /\ m_timeout_tasks = <<>>
    /\ m_timers = {}
    /\ task_conversations = <<>>
    /\ m_conversation_requests = <<>>
    /\ request_task = <<>>
    /\ waiters = {}
    /\ inflight = {}
    /\ requests = [p \in ProviderIds |-> <<>>]
    /\ conversations = [p \in ProviderIds |-> <<>>]
    /\ conversation_requests = [p \in ProviderIds |-> [c \in Convs |-> <<>>]]
    /\ p_timeout_tasks = [p \in ProviderIds |-> <<>>]
    /\ p_timers = {}
    /\ handlers = <<>>
    /\ nextId = 1
    /\ cb_calls = [k \in Keys |-> NoCalls]
    /\ lastOp = Returned("init", "none", 0, "none", "none", "none", FALSE,
                         FALSE, "none")

\* Scope of Spec: the life of one request, served by either provider
Pool == {1}
PidInputs == {"", "mail"}     \* "": provider_id=None, the default provider
SConvs == {"c1"}
STasks == {"t1"}

\* the request ids a caller can name: "" and the ids a manager call has
\* recorded (an id is unknown while its call is suspended in _send_email)
KnownIds(pool) == {EmptyId} \cup (pool \ {a.r : a \in inflight})

RequestHumanloop ==
    \E task_id \in STasks, c \in SConvs, loop_type \in HumanLoopType,
       cb \in BOOLEAN, pid \in PidInputs, timeout \in Timeouts,
       blocking \in BOOLEAN, recipient \in BOOLEAN :
        MgrRequestHumanloop(Pool, task_id, c, loop_type, cb, pid, timeout,
                            blocking, recipient)

SendDone == \E a \in inflight, success \in BOOLEAN : EmailSendDone(a, success)

CheckRequestStatus ==
    \E c \in SConvs, r \in KnownIds(Pool), pid \in PidInputs :
        MgrCheckRequestStatus(c, r, pid)

Poll == \E w \in waiters : WaitPoll(w)

CancelRequest ==
    \E c \in SConvs, r \in KnownIds(Pool), pid \in PidInputs :
        MgrCancelRequest(c, r, pid)

CancelConversation ==
    \E c \in SConvs, pid \in PidInputs : MgrCancelConversation(c, pid)

ProviderTimer == \E t \in p_timers : ProvTimerFire(t)

ManagerTimer == \E t \in m_timers : MgrTimerFire(t)

TerminalAnswer ==
    \E r \in DOMAIN handlers, input \in {"approve", "reject", "invalid",
                                         "exit", "text"} :
        TerminalInput(r, input)

TerminalRejectReason == \E r \in DOMAIN handlers : TerminalReason(r)

EmailLoop == \E r \in DOMAIN handlers : EmailCheckLoop(r)

EmailAnswer ==
    \E r \in DOMAIN handlers, mail \in {"none", "yes", "no", "garbled",
                                        "fail"} :
        EmailFetched(r, mail)

Next ==
    \/ RequestHumanloop
    \/ CheckRequestStatus
    \/ CancelRequest
    \/ CancelConversation
    \/ SendDone
    \/ Poll
    \/ ProviderTimer
    \/ ManagerTimer
    \/ TerminalAnswer
    \/ TerminalRejectReason
    \/ EmailLoop
    \/ EmailAnswer

Spec == Init /\ [][Next]_vars

\* Scope of SpecConv: multi-turn conversations, a first request followed by
\* continue_humanloop calls on either provider
ConvPool == {1, 2}
ConvTimeouts == {0}

ConvRequest ==
    \E task_id \in STasks, c \in SConvs, cb \in BOOLEAN, pid \in PidInputs,
       timeout \in ConvTimeouts, blocking \in BOOLEAN :
        MgrRequestHumanloop(ConvPool, task_id, c, "CONVERSATION", cb, pid,
                            timeout, blocking, TRUE)

ContinueWith(c, pid) ==
    \E cb \in BOOLEAN, timeout \in ConvTimeouts, blocking \in BOOLEAN :
        MgrContinueHumanloop(ConvPool, c, cb, pid, timeout, blocking, TRUE)

ContinueHumanloop == \E c \in SConvs, pid \in PidInputs : ContinueWith(c, pid)

NextConv ==
    \/ ConvRequest
    \/ ContinueHumanloop
    \/ SendDone
    \/ Poll
    \/ TerminalAnswer
    \/ EmailLoop
    \/ EmailAnswer

SpecConv == Init /\ [][NextConv]_vars

----------------------------------------------------------------------------
(* Properties *)

TerminalStatus == {"APPROVED", "REJECTED", "COMPLETED", "EXPIRED", "ERROR",
                   "CANCELLED"}

PidArgs == ProviderIds \cup {""}

StatusOf(p, key) ==
    IF key \in DOMAIN requests[p] THEN requests[p][key].status ELSE "none"

\* both timers of the request have run to their end: the handles are still
\* registered (no cancel removed them) and no timeout_task is sleeping
TimersDone(p, key) ==
    /\ key \in DOMAIN p_timeout_tasks[p]
    /\ key \in DOMAIN m_timeout_tasks
    /\ ~\E t \in p_timers : t.p = p /\ t.key = key
    /\ ~\E t \in m_timers : t.key = key

\* C1: a request created with a callback and a timeout that nobody answers
\* or cancels is EXPIRED with an error once its two timers have run, and
\* on_humanloop_timeout was invoked exactly once, whichever timer ran first.
C1_TimeoutExactlyOnce ==
    \A p \in ProviderIds : \A key \in DOMAIN requests[p] :
        LET info == requests[p][key] IN
        (/\ info.timeout # 0
         /\ key \in callbacks
         /\ info.status \in {"PENDING", "EXPIRED"}
         /\ info.responded_at = 0
         /\ TimersDone(p, key))
        => /\ info.status = "EXPIRED"
           /\ info.error = "Request timed out"
           /\ cb_calls[key].timeout = 1

\* C2: an update notification with a terminal status is delivered to a
\* request's callback at most once, and after it was delivered the key is
\* no longer in the callback registry.
C2_TerminalUpdateAtMostOnce ==
    \A key \in Keys :
        /\ cb_calls[key].update <= 1
        /\ cb_calls[key].update >= 1 => key \notin callbacks

\* C3 (as stated): the Result a blocking request_humanloop or
\* continue_humanloop returns always carries a terminal status.
C3_BlockingReturnsTerminal ==
    lastOp.blocking => lastOp.ret \in TerminalStatus

\* C3 (amended): a blocking request_humanloop or continue_humanloop returns
\* only when the polled status is not PENDING: the Result it returns carries
\* INPROGRESS or a terminal status.
C3_BlockingReturnsNotPending ==
    lastOp.blocking => lastOp.ret \in HumanLoopStatus \ {"PENDING"}

C3_Witness ==
    /\ lastOp.blocking
    /\ lastOp.op \in {"request_humanloop", "continue_humanloop"}
    /\ lastOp.ret = "INPROGRESS"

\* C4: when a timeout timer (the provider's or the manager's) fires while the
\* request is INPROGRESS, the request is left as it is (status INPROGRESS,
\* no error), no notification is sent, and a new timer with the same timeout
\* is armed and registered under the same key.
C4_InProgressRenews ==
    [][/\ \A t \in p_timers :
            (StatusOf(t.p, t.key) = "INPROGRESS" /\ ProvTimerFire(t))
            => /\ requests' = requests
               /\ cb_calls' = cb_calls
               /\ t.key \in DOMAIN p_timeout_tasks'[t.p]
               /\ \E n \in p_timers' \ p_timers :
                     /\ n.p = t.p /\ n.key = t.key /\ n.timeout = t.timeout
                     /\ p_timeout_tasks'[t.p][t.key] = n.gen
       /\ \A t \in m_timers :
            (StatusOf(t.p, t.key) = "INPROGRESS" /\ MgrTimerFire(t))
            => /\ requests' = requests
               /\ cb_calls' = cb_calls
               /\ t.key \in DOMAIN m_timeout_tasks'
               /\ \E n \in m_timers' \ m_timers :
                     /\ n.key = t.key /\ n.timeout = t.timeout /\ n.p = t.p
                     /\ m_timeout_tasks'[t.key] = n.gen
      ]_vars

\* a request still INPROGRESS whose provider timer and manager timer have
\* both fired and been re-armed
C4_Witness ==
    \E p \in ProviderIds : \E key \in DOMAIN requests[p] :
        /\ requests[p][key].status = "INPROGRESS"
        /\ requests[p][key].error = "none"
        /\ key \in DOMAIN p_timeout_tasks[p] /\ p_timeout_tasks[p][key] = 2
        /\ key \in DOMAIN m_timeout_tasks /\ m_timeout_tasks[key] = 2
        /\ \E t \in p_timers : t.p = p /\ t.key = key /\ t.gen = 2
        /\ \E t \in m_timers : t.key = key /\ t.gen = 2
        /\ cb_calls[key].timeout = 0

\* C5: a request with a timeout that was answered APPROVED is APPROVED in
\* every later state, and on_humanloop_timeout is not invoked for it.
C5_ApprovedStays ==
    [][\A p \in ProviderIds : \A key \in DOMAIN requests[p] :
          (requests[p][key].timeout # 0 /\ requests[p][key].status = "APPROVED")
          => /\ StatusOf(p, key)' = "APPROVED"
             /\ cb_calls'[key].timeout = cb_calls[key].timeout
      ]_vars

\* C6: after an explicit cancel, after a check_request_status that observed
\* a terminal status, and after a blocking wait returned one, no timeout
\* handle is registered for the request, in the manager or in a provider.
C6_HandlesReleased ==
    LET key == <<lastOp.c, lastOp.r>> IN
    (/\ lastOp.p \in ProviderIds
     /\ key \in DOMAIN requests[lastOp.p]
     /\ \/ lastOp.op = "cancel_request" /\ lastOp.ret = "true"
        \/ lastOp.op = "check_request_status" /\ lastOp.ret \in TerminalStatus
        \/ lastOp.blocking /\ lastOp.ret \in TerminalStatus)
    => /\ key \notin DOMAIN m_timeout_tasks
       /\ \A p \in ProviderIds : key \notin DOMAIN p_timeout_tasks[p]

\* C7: cancel_request leaves a request that is APPROVED, REJECTED, COMPLETED
\* or EXPIRED as it is (status, response and error unchanged).
C7_CancelSparesTerminal ==
    [][(/\ lastOp'.op = "cancel_request"
        /\ \E c \in Convs, r \in 0..MaxReq, pid \in PidArgs :
              MgrCancelRequest(c, r, pid))
       => \A p \in ProviderIds : \A key \in DOMAIN requests[p] :
             requests[p][key].status \in {"APPROVED", "REJECTED",
                                          "COMPLETED", "EXPIRED"}
             => requests'[p][key] = requests[p][key]
      ]_vars

\* C8: once a request is CANCELLED or EXPIRED, a step of a channel handler
\* (terminal input, rejection reason, e-mail reply) leaves its status,
\* response, responded_by and responded_at unchanged.
C8_LateAnswerIgnored ==
    [][(TerminalAnswer \/ TerminalRejectReason \/ EmailAnswer)
       => \A p \in ProviderIds : \A key \in DOMAIN requests[p] :
             requests[p][key].status \in {"CANCELLED", "EXPIRED"}
             => /\ requests'[p][key].status = requests[p][key].status
                /\ requests'[p][key].response = requests[p][key].response
                /\ requests'[p][key].responded_by =
                       requests[p][key].responded_by
                /\ requests'[p][key].responded_at =
                       requests[p][key].responded_at
      ]_vars

\* C9 (as stated): a cancel_request on a request that is already CANCELLED
\* returns false.
C9_SecondCancelFalse ==
    (lastOp.op = "cancel_request" /\ lastOp.was = "CANCELLED")
    => lastOp.ret = "false"

\* C9 (amended): a cancel_request on a request that is already CANCELLED
\* returns true (the request was found) and leaves every stored request as
\* it is: the status stays CANCELLED.
C9_SecondCancelNoOp ==
    [][lastOp'.op = "cancel_request"
       => \A c \in Convs, r \in 0..MaxReq, pid \in PidArgs :
             (/\ lastOp'.c = c /\ lastOp'.r = r
              /\ ProviderFound(pid)
              /\ StatusOf(ProviderOf(pid), <<c, r>>) = "CANCELLED"
              /\ MgrCancelRequest(c, r, pid))
             => /\ lastOp'.ret = "true"
                /\ requests' = requests
      ]_vars

C9_Witness ==
    /\ lastOp.op = "cancel_request"
    /\ lastOp.was = "CANCELLED"
    /\ lastOp.ret = "true"
    /\ StatusOf(lastOp.p, <<lastOp.c, lastOp.r>>) = "CANCELLED"

\* the provider that served the first request of conversation c: the one
\* holding the conversation's oldest stored request
BoundProvider(c) ==
    LET ids == {k[2] : k \in {x \in UNION {DOMAIN requests[p] :
                                              p \in ProviderIds} : x[1] = c}}
    IN IF ids = {} THEN "none"
       ELSE LET first == CHOOSE i \in ids : \A j \in ids : i <= j IN
            CHOOSE p \in ProviderIds : <<c, first>> \in DOMAIN requests[p]

\* C10: continue_humanloop with a registered provider other than the one
\* that served the conversation's first request raises ValueError and
\* changes nothing in the manager or in a provider.
C10_ContinueBindingChecked ==
    [][\A c \in Convs, pid \in PidArgs :
          (/\ ProviderFound(pid)
           /\ BoundProvider(c) \notin {"none", ProviderOf(pid)}
           /\ ContinueWith(c, pid))
          => /\ lastOp'.op = "continue_humanloop"
             /\ lastOp'.ret = "ValueError"
             /\ UNCHANGED <<mvars, pvars, waiters, inflight, cb_calls>>
      ]_vars

----------------------------------------------------------------------------
(* Conversations over time: requests, continuations and cancellations *)

\* Scope of SpecHist: two requests of one conversation, created by
\* request_humanloop or continue_humanloop on either provider, answered and
\* cancelled in any order
HistRequest ==
    \E task_id \in STasks, c \in SConvs, pid \in PidInputs :
        MgrRequestHumanloop(ConvPool, task_id, c, "CONVERSATION", FALSE, pid,
                            0, FALSE, TRUE)

HistContinue ==
    \E c \in SConvs, pid \in PidInputs :
        MgrContinueHumanloop(ConvPool, c, FALSE, pid, 0, FALSE, TRUE)

HistCancelRequest ==
    \E c \in SConvs, r \in KnownIds(ConvPool), pid \in PidInputs :
        MgrCancelRequest(c, r, pid)

NextHist ==
    \/ HistRequest
    \/ HistContinue
    \/ HistCancelRequest
    \/ CancelConversation
    \/ SendDone
    \/ TerminalAnswer
    \/ EmailLoop
    \/ EmailAnswer

SpecHist == Init /\ [][NextHist]_vars

\* the providers holding a request of conversation c
ServedBy(c) ==
    {p \in ProviderIds : \E k \in DOMAIN requests[p] : k[1] = c}

\* C11: all requests of one conversation live in one provider's store: a
\* request_humanloop naming another provider than the one that served the
\* conversation's first request creates no request there.
C11_SingleProviderPerConversation ==
    \A c \in Convs : Cardinality(ServedBy(c)) <= 1

\* C12: provider.cancel_conversation(c) sets exactly the PENDING and
\* INPROGRESS requests of c to CANCELLED; every other request of c and every
\* request of another conversation or provider keeps its status and data.
C12_CancelConversationFrame ==
    [][lastOp'.op = "cancel_conversation"
       => \A c \in Convs, pid \in PidArgs :
             (ProviderFound(pid) /\ MgrCancelConversation(c, pid))
             => \A p \in ProviderIds : \A key \in DOMAIN requests[p] :
                   /\ key \in DOMAIN requests'[p]
                   /\ requests'[p][key] =
                        IF /\ p = ProviderOf(pid)
                           /\ key[1] = c
                           /\ requests[p][key].status \in {"PENDING",
                                                           "INPROGRESS"}
                        THEN [requests[p][key] EXCEPT !.status = "CANCELLED"]
                        ELSE requests[p][key]
      ]_vars

\* an e-mail conversation cancelled as a whole, holding a request that was
\* COMPLETED with its reply before and a request the call cancelled
C12_Witness ==
    /\ lastOp.op = "cancel_conversation"
    /\ lastOp.ret = "true"
    /\ lastOp.p = "mail"
    /\ \E k1, k2 \in DOMAIN requests["mail"] :
          /\ k1[1] = lastOp.c /\ k2[1] = lastOp.c
          /\ requests["mail"][k1].status = "COMPLETED"
          /\ requests["mail"][k1].response = "yes"
          /\ requests["mail"][k2].status = "CANCELLED"

\* C13: after manager.cancel_conversation(c) no key of conversation c is left
\* in the manager's timeout registry or in the provider's.
C13_ConversationHandlesReleased ==
    [][\A c \in Convs, pid \in PidArgs :
          (/\ lastOp'.op = "cancel_conversation"
           /\ ProviderFound(pid)
           /\ MgrCancelConversation(c, pid))
          => /\ \A k \in DOMAIN m_timeout_tasks' : k[1] # c
             /\ \A k \in DOMAIN p_timeout_tasks'[ProviderOf(pid)] :
                   k[1] # c
      ]_vars


\* C14: when on_humanloop_update raises during dispatch, on_humanloop_error
\* is invoked and nothing escapes: check_request_status and the blocking
\* wait return the provider's status, and a check or a poll leaves the
\* task, conversation and request indices and the timeout registry as they
\* were.
C14_DispatchErrorContained ==
    [][(lastOp'.err /\ lastOp' # lastOp)
       => /\ lastOp'.ret \in HumanLoopStatus
          /\ lastOp'.ret =
                ResultOf(requests', lastOp'.p, lastOp'.c, lastOp'.r).status
          /\ (CheckRequestStatus \/ Poll)
               => UNCHANGED <<task_conversations, m_conversation_requests,
                              request_task, m_timeout_tasks, m_timers>>
      ]_vars

C14_Witness ==
    /\ lastOp.op = "check_request_status"
    /\ lastOp.err
    /\ lastOp.ret = "APPROVED"
    /\ cb_calls[<<lastOp.c, lastOp.r>>].update >= 1
    /\ m_conversation_requests # <<>>

----------------------------------------------------------------------------
(* A provider whose check_request_status raises *)

\* manager.check_request_status when the awaited provider call raises: the
\* exception leaves the method at the await, nothing after it runs
MgrCheckRequestStatusRaises(c, r, pid) ==
    IF ~ProviderFound(pid)
    THEN RaiseValueError("check_request_status", c, r, pid)
    ELSE /\ lastOp' = Returned("check_request_status", c, r,
                               ProviderOf(pid), "Exception", "none",
                               FALSE, FALSE,
                               StatusOf(ProviderOf(pid), <<c, r>>))
         /\ UNCHANGED <<mvars, pvars, waiters, inflight, cb_calls>>

ErrRequestOf(loop_type, pid, recipient) ==
    \E task_id \in STasks, c \in SConvs, cb \in BOOLEAN :
        MgrRequestHumanloop(Pool, task_id, c, loop_type, cb, pid, 0, FALSE, recipient)

ErrRequest ==
    \E loop_type \in HumanLoopType, pid \in PidInputs, recipient \in BOOLEAN :
        ErrRequestOf(loop_type, pid, recipient)

CheckRaises ==
    \E c \in SConvs, r \in KnownIds(Pool), pid \in PidArgs :
        MgrCheckRequestStatusRaises(c, r, pid)

NextErr ==
    \/ ErrRequest
    \/ SendDone
    \/ CheckRequestStatus
    \/ CheckRaises
    \/ TerminalAnswer
    \/ TerminalRejectReason
    \/ EmailLoop
    \/ EmailAnswer

SpecErr == Init /\ [][NextErr]_vars

\* C15: when the provider's check_request_status raises inside
\* manager.check_request_status for a request with a registered callback,
\* the caller sees the exception and the callback's on_humanloop_error has
\* been invoked.
C15_ProviderErrorNotified ==
    (/\ lastOp.op = "check_request_status"
     /\ lastOp.ret = "Exception"
     /\ <<lastOp.c, lastOp.r>> \in callbacks)
    => lastOp.err

C17_TimeoutUnregisters ==
    \A key \in Keys : cb_calls[key].timeout >= 1 => key \notin callbacks

----------------------------------------------------------------------------
(* Scenario C: a conversation answered in time, renewed, then completed *)

\* a provider writes the status of one of its stored requests
ProviderSets(p, key, status) ==
    /\ key \in DOMAIN requests[p]
    /\ requests' = [requests EXCEPT ![p][key].status = status]
    /\ UNCHANGED <<conversations, conversation_requests, p_timeout_tasks,
                   p_timers, handlers, nextId, mvars, waiters, inflight,
                   cb_calls, lastOp>>

\* request_humanloop(loop_type=CONVERSATION, callback=cb, timeout=T)
ScenRequest ==
    \E task_id \in STasks, c \in Convs :
        MgrRequestHumanloop(ConvPool, task_id, c, "CONVERSATION", TRUE, "", 5, FALSE, TRUE)

\* before T the human replies and the request becomes INPROGRESS
ScenInProgress == \E r \in DOMAIN handlers : TerminalInput(r, "text")

\* T has passed: the timers of a request wake after the reply
ScenProviderTimer ==
    \E t \in p_timers :
        StatusOf(t.p, t.key) # "PENDING" /\ ProvTimerFire(t)

ScenManagerTimer ==
    \E t \in m_timers :
        StatusOf(t.p, t.key) # "PENDING" /\ MgrTimerFire(t)

\* after the manager's timer has renewed, the provider completes the request
ScenCompleted ==
    \E key \in DOMAIN m_timeout_tasks :
        /\ m_timeout_tasks[key] > 1
        /\ StatusOf("term", key) = "INPROGRESS"
        /\ ProviderSets("term", key, "COMPLETED")

\* the final check_request_status of a completed request
ScenFinalCheck ==
    \E key \in DOMAIN requests["term"] :
        /\ StatusOf("term", key) = "COMPLETED"
        /\ cb_calls[key].update = 0
        /\ MgrCheckRequestStatus(key[1], key[2], "")

NextScenC ==
    \/ ScenRequest
    \/ ScenInProgress
    \/ ScenProviderTimer
    \/ ScenManagerTimer
    \/ ScenCompleted
    \/ ScenFinalCheck

SpecScenC == Init /\ [][NextScenC]_vars

\* C18: in Scenario C the request is never EXPIRED, no timeout notification
\* is sent, nothing is notified before the final check, and the final
\* check_request_status returns COMPLETED with the callback's update
\* notification invoked exactly once.
C18_ScenarioC ==
    /\ \A key \in Keys :
          /\ StatusOf("term", key) # "EXPIRED"
          /\ cb_calls[key].timeout = 0
          /\ cb_calls[key].update + cb_calls[key].progress <= 1
          /\ cb_calls[key].update + cb_calls[key].progress = 1
               => StatusOf("term", key) = "COMPLETED"
    /\ lastOp.op = "check_request_status"
         => /\ lastOp.ret = "COMPLETED"
            /\ cb_calls[<<lastOp.c, lastOp.r>>].update = 1
            /\ cb_calls[<<lastOp.c, lastOp.r>>].progress = 0

C18_Witness ==
    /\ lastOp.op = "check_request_status"
    /\ lastOp.ret = "COMPLETED"
    /\ cb_calls[<<lastOp.c, lastOp.r>>].update = 1
    /\ m_timeout_tasks[<<lastOp.c, lastOp.r>>] = 2
    /\ p_timeout_tasks["term"][<<lastOp.c, lastOp.r>>] = 2

\* BaseProvider.get_conversation_history: the stored requests of the
\* conversation's request list, in list order
get_conversation_history(p, c) ==
    LET ids == SelectSeq(conversation_requests[p][c],
                         LAMBDA r : <<c, r>> \in DOMAIN requests[p])
    IN [i \in 1..Len(ids) |->
          [request_id |-> ids[i], status |-> requests[p][<<c, ids[i]>>].status,
           response |-> requests[p][<<c, ids[i]>>].response]]

\* C19: for every conversation in a provider's store, the request ids of
\* get_conversation_history are in creation order (ids are generated in
\* increasing order) and latest_request_id is the last of them.
C19_HistoryOrdered ==
    \A p \in ProviderIds : \A c \in DOMAIN conversations[p] :
        LET h == get_conversation_history(p, c) IN
        /\ Len(h) >= 1
        /\ Len(h) = Len(conversation_requests[p][c])
        /\ \A i, j \in 1..Len(h) : i < j => h[i].request_id < h[j].request_id
        /\ conversations[p][c].latest_request_id = h[Len(h)].request_id

C19_Witness ==
    /\ lastOp.op = "cancel_request"
    /\ lastOp.ret = "true"
    /\ \E p \in ProviderIds : \E c \in DOMAIN conversations[p] :
          LET h == get_conversation_history(p, c) IN
          /\ Len(h) = 2
          /\ h[1].status = "CANCELLED"
          /\ h[2].status = "PENDING"
          /\ conversations[p][c].latest_request_id = h[2].request_id

IsPrefix(s, t) == Len(s) <= Len(t) /\ \A i \in 1..Len(s) : s[i] = t[i]

\* C20: no step, cancel_request and cancel_conversation included, deletes a
\* provider's request record or removes an id from a conversation's request
\* list, and right after a successful cancel the cancelled requests are
\* still returned by check_request_status, with status CANCELLED.
C20_CancelKeepsHistory ==
    [][/\ \A p \in ProviderIds :
            /\ DOMAIN requests[p] \subseteq DOMAIN requests'[p]
            /\ \A c \in Convs : IsPrefix(conversation_requests[p][c],
                                          conversation_requests'[p][c])
       /\ (lastOp' # lastOp /\ lastOp'.ret = "true")
            => LET p == lastOp'.p
                   c == lastOp'.c
               IN /\ lastOp'.op = "cancel_request"
                       => ResultOf(requests', p, c, lastOp'.r).status
                            = "CANCELLED"
                  /\ lastOp'.op = "cancel_conversation"
                       => \A key \in DOMAIN requests[p] :
                            (key[1] = c /\ ConversationCancels(requests[p][key].status))
                            => ResultOf(requests', p, c, key[2]).status
                                 = "CANCELLED"
      ]_vars

C20_Witness ==
    /\ lastOp.op = "cancel_conversation"
    /\ lastOp.ret = "true"
    /\ task_conversations = <<>>
    /\ Len(conversation_requests[lastOp.p][lastOp.c]) = 2
    /\ \A i \in 1..2 :
          check_request_status(lastOp.p, lastOp.c,
              conversation_requests[lastOp.p][lastOp.c][i]).status = "CANCELLED"

----------------------------------------------------------------------------
(* Lookups: does the manager know a conversation *)

check_conversation_exist_listed(task_id, c) ==
    \E i \in 1..Len(task_conversations) :
        task_conversations[i].task = task_id /\ c \in task_conversations[i].convs

\* the value of manager.check_conversation_exist(task_id, conversation_id)
check_conversation_exist(task_id, c) ==
    /\ HasTask(task_conversations, task_id)
    /\ \E i \in 1..Len(task_conversations) :
          task_conversations[i].task = task_id /\ c \in task_conversations[i].convs
    /\ c \in DOMAIN m_conversation_requests
    /\ m_conversation_requests[c] # <<>>

\* manager.check_conversation_exist
MgrCheckConversationExist(task_id, c) ==
    /\ lastOp' = Returned("check_conversation_exist", c, 0, "none",
                          Bool(check_conversation_exist(task_id, c)), "none",
                          FALSE, FALSE, "none")
    /\ UNCHANGED <<mvars, pvars, waiters, inflight, cb_calls>>

CheckConversationExist ==
    \E task_id \in Tasks, c \in Convs : MgrCheckConversationExist(task_id, c)

NextExist == NextHist \/ CheckConversationExist

SpecExist == Init /\ [][NextExist]_vars

\* the first request_humanloop of conversation c is suspended in the
\* provider: every request stored for c belongs to a call still in flight
FirstInFlight(c) ==
    /\ \E a \in inflight : a.op = "request_humanloop" /\ a.c = c
    /\ \A p \in ProviderIds : \A k \in DOMAIN requests[p] :
          k[1] = c => k[2] \in {a.r : a \in inflight}

\* C21: check_conversation_exist(task_id, c) returns true exactly when
\* task_id is in the task index, c is in that task's conversation set and
\* the manager has recorded at least one request for c; it changes no
\* state, is false while the first request of c is still in flight, and is
\* false right after cancel_conversation(c).
C21_ExistIffIndexed ==
    [][/\ lastOp'.op = "check_conversation_exist"
          => \A task_id \in Tasks, c \in Convs :
                MgrCheckConversationExist(task_id, c)
                => /\ (lastOp'.ret = "true") <=>
                        (/\ \E i \in 1..Len(task_conversations) :
                               /\ task_conversations[i].task = task_id
                               /\ c \in task_conversations[i].convs
                         /\ Len(ListOf(m_conversation_requests, c)) >= 1)
                   /\ lastOp'.ret \in {"true", "false"}
                   /\ FirstInFlight(c) => lastOp'.ret = "false"
                   /\ UNCHANGED <<mvars, pvars, waiters, inflight, cb_calls>>
       /\ (/\ lastOp'.op = "cancel_conversation"
           /\ lastOp'.ret \in {"true", "false"}
           /\ lastOp' # lastOp)
          => \A task_id \in Tasks :
                ~(check_conversation_exist(task_id, lastOp.c))'
      ]_vars

C21_Witness ==
    /\ lastOp.op = "check_conversation_exist"
    /\ lastOp.ret = "false"
    /\ HasTask(task_conversations, "t1")
    /\ check_conversation_exist_listed("t1", lastOp.c)
    /\ ListOf(m_conversation_requests, lastOp.c) = <<>>

----------------------------------------------------------------------------
(* Providers called directly: lookups and continue_humanloop *)

\* BaseProvider.check_conversation_status
check_conversation_status(p, c) ==
    IF c \notin DOMAIN conversations[p] THEN NotFound(c, EmptyId)
    ELSE IF conversations[p][c].latest_request_id = EmptyId
    THEN NotFound(c, EmptyId)
    ELSE check_request_status(p, c, conversations[p][c].latest_request_id)

\* the HumanLoopResult a provider method builds from literals
Outcome(c, r, loop_type, status, error) ==
    [conversation_id |-> c, request_id |-> r, loop_type |-> loop_type,
     status |-> status, response |-> "none", responded_by |-> "none",
     responded_at |-> 0, error |-> error]

\* what the caller of a provider method gets: the HumanLoopResult res (the
\* last field carries its error message)
ProviderResult(op, p, res) ==
    Returned(op, res.conversation_id, res.request_id, p, res.status,
             res.response, FALSE, FALSE, res.error)

ProvCheckRequestStatusExpiring(p, c, r) ==
    /\ lastOp' = ProviderResult("provider.check_request_status", p,
                                check_request_status(p, c, r))
    /\ requests' =
         IF StatusOf(p, <<c, r>>) = "PENDING"
         THEN [requests EXCEPT ![p][<<c, r>>].status = "EXPIRED"]
         ELSE requests
    /\ UNCHANGED <<mvars, conversations, conversation_requests, p_timeout_tasks, p_timers, handlers, nextId, waiters, inflight, cb_calls>>

\* provider.check_request_status(conversation_id, request_id)
ProvCheckRequestStatus(p, c, r) ==
    /\ lastOp' = ProviderResult("provider.check_request_status", p,
                                check_request_status(p, c, r))
    /\ UNCHANGED <<mvars, pvars, waiters, inflight, cb_calls>>

\* provider.check_conversation_status(conversation_id)
ProvCheckConversationStatus(p, c) ==
    /\ lastOp' = ProviderResult("provider.check_conversation_status", p,
                                check_conversation_status(p, c))
    /\ UNCHANGED <<mvars, pvars, waiters, inflight, cb_calls>>

\* provider.continue_humanloop(conversation_id, ...) of TerminalProvider and
\* EmailProvider; the latter suspends in _send_email
ProvContinueFrom(pool, p, c, timeout, recipient) ==
    LET a == Call("provider.continue_humanloop", "none", c, "CONVERSATION",
                  FALSE, p, timeout, FALSE, nextId)
    IN
    IF c \notin DOMAIN conversations[p]
    THEN /\ lastOp' = ProviderResult(a.op, p, NotFound(c, EmptyId))
         /\ UNCHANGED <<mvars, pvars, waiters, inflight, cb_calls>>
    ELSE /\ nextId \in pool
         /\ UNCHANGED <<mvars, waiters, cb_calls>>
         /\ IF p = "term"
            THEN /\ TerminalCreate(c, nextId, conversations[p][c].task_id,
                                   "CONVERSATION", timeout)
                 /\ inflight' = inflight
                 /\ lastOp' = ProviderResult(a.op, p,
                       Outcome(c, nextId, "CONVERSATION", "PENDING", "none"))
            ELSE IF ~recipient
            THEN /\ EmailNoRecipient
                 /\ inflight' = inflight
                 /\ lastOp' = ProviderResult(a.op, p,
                       Outcome(c, nextId, "CONVERSATION", "ERROR",
                               "Recipient email address is missing"))
            ELSE /\ EmailCreate(c, nextId, conversations[p][c].task_id,
                                "CONVERSATION", timeout)
                 /\ inflight' = inflight \cup {a}
                 /\ lastOp' = lastOp

ProvContinueHumanloop(p, c, timeout, recipient) ==
    ProvContinueFrom(ConvPool, p, c, timeout, recipient)

\* _send_email returns to a request_humanloop or continue_humanloop that
\* was called directly
ProvEmailSendDone(a, success) ==
    /\ a \in inflight
    /\ a.op \in {"provider.request_humanloop", "provider.continue_humanloop"}
    /\ inflight' = inflight \ {a}
    /\ EmailSent(a, success)
    /\ UNCHANGED <<conversations, conversation_requests, nextId>>
    /\ lastOp' = ProviderResult(a.op, a.p,
           IF success
           THEN Outcome(a.c, a.r, a.loop_type, "PENDING", "none")
           ELSE Outcome(a.c, a.r, a.loop_type, "ERROR", "Failed to send email"))
    /\ UNCHANGED <<mvars, waiters, cb_calls>>

LookupRequestStatus ==
    \E p \in ProviderIds, c \in Convs, r \in 0..MaxReq :
        ProvCheckRequestStatus(p, c, r)

LookupConversationStatus ==
    \E p \in ProviderIds, c \in Convs : ProvCheckConversationStatus(p, c)

LookupContinue ==
    \E p \in ProviderIds, c \in Convs, recipient \in BOOLEAN :
        ProvContinueHumanloop(p, c, 0, recipient)

LookupSendDone ==
    \E a \in inflight, success \in BOOLEAN :
        IF a.op = "provider.continue_humanloop"
        THEN ProvEmailSendDone(a, success) ELSE EmailSendDone(a, success)

NextLookup ==
    \/ HistRequest
    \/ LookupSendDone
    \/ LookupRequestStatus
    \/ LookupConversationStatus
    \/ LookupContinue
    \/ TerminalAnswer
    \/ EmailLoop
    \/ EmailAnswer

SpecLookup == Init /\ [][NextLookup]_vars

\* the outcome of a lookup that found nothing: an ERROR Result with a
\* message, and the provider's stores and timers as they were
ReportedAsError ==
    /\ lastOp'.ret = "ERROR"
    /\ lastOp'.was # "none"
    /\ UNCHANGED <<requests, conversations, conversation_requests,
                   p_timeout_tasks, p_timers, handlers, nextId>>

\* C22: provider.check_request_status for an unknown key,
\* provider.check_conversation_status for an unknown conversation and
\* provider.continue_humanloop for an unknown conversation each return a
\* Result with status ERROR and an error message and leave the provider's
\* request store, conversation store and timeout registry unchanged.
C22_UnknownLookupIsError ==
    [][/\ lastOp'.op = "provider.check_request_status"
          => \A p \in ProviderIds, c \in Convs, r \in 0..MaxReq :
               (<<c, r>> \notin DOMAIN requests[p]
                /\ ProvCheckRequestStatus(p, c, r)) => ReportedAsError
       /\ lastOp'.op = "provider.check_conversation_status"
          => \A p \in ProviderIds, c \in Convs :
               (c \notin DOMAIN conversations[p]
                /\ ProvCheckConversationStatus(p, c)) => ReportedAsError
       /\ lastOp'.op = "provider.continue_humanloop"
          => \A p \in ProviderIds, c \in Convs, recipient \in BOOLEAN :
               (c \notin DOMAIN conversations[p]
                /\ ProvContinueHumanloop(p, c, 0, recipient))
               => (ReportedAsError /\ lastOp'.r = EmptyId)
      ]_vars

C22_Witness ==
    /\ lastOp.op = "provider.continue_humanloop"
    /\ lastOp.ret = "ERROR"
    /\ lastOp.c = "c2"
    /\ lastOp.r = EmptyId
    /\ "c1" \in DOMAIN conversations[lastOp.p]
    /\ "c2" \notin DOMAIN conversations[lastOp.p]

\* no provider has ever stored a request of conversation c
NeverCreated(c) == \A q \in ProviderIds : c \notin DOMAIN conversations[q]

----------------------------------------------------------------------------
(* The provider registry *)

MaxProviders == 3     \* registry entries in one run

\* DefaultHumanLoopManager() constructed without initial providers
InitEmpty ==
    /\ providers = <<>>
    /\ default_provider_id = ""
    /\ callbacks = {}
    /\ m_timeout_tasks = <<>>
    /\ m_timers = {}
    /\ task_conversations = <<>>
    /\ m_conversation_requests = <<>>
    /\ request_task = <<>>
    /\ waiters = {}
    /\ inflight = {}
    /\ requests = [p \in ProviderIds |-> <<>>]
    /\ conversations = [p \in ProviderIds |-> <<>>]
    /\ conversation_requests = [p \in ProviderIds |-> [c \in Convs |-> <<>>]]
    /\ p_timeout_tasks = [p \in ProviderIds |-> <<>>]
    /\ p_timers = {}
    /\ handlers = <<>>
    /\ nextId = 1
    /\ cb_calls = [k \in Keys |-> NoCalls]
    /\ lastOp = Returned("init", "none", 0, "none", "none", "none", FALSE,
                         FALSE, "none")

\* f"provider_{len(self.providers) + 1}"
GeneratedId == "provider_" \o ToString(Cardinality(DOMAIN providers) + 1)

DefaultAfterRegisterLatest(current, id) == id

\* if not self.default_provider_id: self.default_provider_id = provider_id
DefaultAfterRegister(current, id) == IF current = "" THEN id ELSE current

\* manager.register_provider(provider, provider_id); pid "": no id given
MgrRegisterProvider(provider, pid) ==
    LET id == IF pid = "" THEN GeneratedId ELSE pid IN
    /\ Cardinality(DOMAIN providers \cup {id}) <= MaxProviders
    /\ providers' = Put(providers, id, provider)
    /\ default_provider_id' = DefaultAfterRegister(default_provider_id, id)
    /\ lastOp' = Returned("register_provider", "none", 0, id, id, "none",
                          FALSE, FALSE,
                          IF pid = "" THEN "generated" ELSE "given")
    /\ UNCHANGED <<callbacks, m_timeout_tasks, m_timers, task_conversations,
                   m_conversation_requests, request_task, pvars, waiters,
                   inflight, cb_calls>>

\* manager.set_default_provider(provider_id)
MgrSetDefaultProvider(pid) ==
    IF pid \notin DOMAIN providers
    THEN /\ lastOp' = Returned("set_default_provider", "none", 0, pid,
                               "ValueError", "none", FALSE, FALSE, "none")
         /\ UNCHANGED <<mvars, pvars, waiters, inflight, cb_calls>>
    ELSE /\ default_provider_id' = pid
         /\ lastOp' = Returned("set_default_provider", "none", 0, pid, "true",
                               "none", FALSE, FALSE, "none")
         /\ UNCHANGED <<providers, callbacks, m_timeout_tasks, m_timers,
                        task_conversations, m_conversation_requests,
                        request_task, pvars, waiters, inflight, cb_calls>>

\* manager.get_provider(provider_id)
MgrGetProvider(pid) ==
    IF ~ProviderFound(pid) THEN RaiseValueError("get_provider", "none", 0, pid)
    ELSE /\ lastOp' = Returned("get_provider", "none", 0,
                               ResolveProvider(pid), ProviderOf(pid), "none",
                               FALSE, FALSE, "none")
         /\ UNCHANGED <<mvars, pvars, waiters, inflight, cb_calls>>

GivenIds == {"", "term", "provider_2"}
AskedIds == {"", "term", "provider_1", "provider_2", "ghost"}

RegisterProvider ==
    \E provider \in ProviderIds, pid \in GivenIds :
        MgrRegisterProvider(provider, pid)

SetDefaultProvider == \E pid \in AskedIds : MgrSetDefaultProvider(pid)

GetProvider == \E pid \in AskedIds : MgrGetProvider(pid)

NextReg == RegisterProvider \/ SetDefaultProvider \/ GetProvider

SpecReg == InitEmpty /\ [][NextReg]_vars

\* the default provider id is unset with an empty registry, or registered
DefaultRegistered ==
    IF DOMAIN providers = {} THEN default_provider_id = ""
    ELSE default_provider_id \in DOMAIN providers

\* C25: register_provider returns the given id, or provider_{n} when none
\* is given; the first registration becomes the default and later ones
\* leave the default alone; the default is always unset (empty registry)
\* or a registered id; set_default_provider changes it only to a
\* registered id.
C25_RegistryDefault ==
    [][/\ DefaultRegistered /\ DefaultRegistered'
       /\ lastOp'.op = "register_provider"
          => \A provider \in ProviderIds, pid \in GivenIds :
               MgrRegisterProvider(provider, pid)
               => /\ lastOp'.ret =
                       IF pid # "" THEN pid
                       ELSE "provider_" \o
                              ToString(Cardinality(DOMAIN providers) + 1)
                  /\ lastOp'.ret \in DOMAIN providers'
                  /\ providers'[lastOp'.ret] = provider
                  /\ default_provider_id' =
                       IF DOMAIN providers = {} THEN lastOp'.ret
                       ELSE default_provider_id
       /\ lastOp'.op = "set_default_provider"
          => \A pid \in AskedIds :
               MgrSetDefaultProvider(pid)
               => /\ providers' = providers
                  /\ IF pid \in DOMAIN providers
                     THEN default_provider_id' = pid /\ lastOp'.ret = "true"
                     ELSE /\ default_provider_id' = default_provider_id
                          /\ lastOp'.ret = "ValueError"
      ]_vars

C25_Witness ==
    /\ lastOp.op = "register_provider"
    /\ lastOp.ret = "provider_3"
    /\ default_provider_id = "provider_1"
    /\ Cardinality(DOMAIN providers) = 3

----------------------------------------------------------------------------
(* Operations on a manager whose provider is missing *)

\* manager.check_conversation_status
MgrCheckConversationStatus(c, pid) ==
    IF ~ProviderFound(pid)
    THEN RaiseValueError("check_conversation_status", c, 0, pid)
    ELSE /\ lastOp' = ProviderResult("check_conversation_status",
                          ProviderOf(pid),
                          check_conversation_status(ProviderOf(pid), c))
         /\ UNCHANGED <<mvars, pvars, waiters, inflight, cb_calls>>

\* Scope of SpecCfg: a manager constructed empty; the terminal provider is
\* registered under its name at some point, "mail" never is
CfgPids == {"", "mail"}

CfgRegister == MgrRegisterProvider("term", "term")

CfgRequestWith(pid) ==
    \E task_id \in STasks, c \in SConvs, cb \in BOOLEAN :
        MgrRequestHumanloop(Pool, task_id, c, "CONVERSATION", cb, pid, 0, FALSE, TRUE)

CfgRequest == \E pid \in CfgPids : CfgRequestWith(pid)

CfgContinueWith(pid) ==
    \E c \in SConvs, cb \in BOOLEAN :
        MgrContinueHumanloop(Pool, c, cb, pid, 0, FALSE, TRUE)

CfgContinue == \E pid \in CfgPids : CfgContinueWith(pid)

CfgCheckRequestStatus ==
    \E c \in SConvs, r \in KnownIds(Pool), pid \in CfgPids :
        MgrCheckRequestStatus(c, r, pid)

CfgCheckConversationStatus ==
    \E c \in SConvs, pid \in CfgPids : MgrCheckConversationStatus(c, pid)

CfgCancelRequest ==
    \E c \in SConvs, r \in KnownIds(Pool), pid \in CfgPids :
        MgrCancelRequest(c, r, pid)

CfgCancelConversation ==
    \E c \in SConvs, pid \in CfgPids : MgrCancelConversation(c, pid)

CfgGetProvider == \E pid \in CfgPids : MgrGetProvider(pid)

CfgSetDefaultProvider == \E pid \in CfgPids : MgrSetDefaultProvider(pid)

NextCfg ==
    \/ CfgRegister
    \/ CfgRequest
    \/ CfgContinue
    \/ CfgCheckRequestStatus
    \/ CfgCheckConversationStatus
    \/ CfgCancelRequest
    \/ CfgCancelConversation
    \/ CfgGetProvider
    \/ CfgSetDefaultProvider
    \/ TerminalAnswer

SpecCfg == InitEmpty /\ [][NextCfg]_vars

\* provider_id (or, when none is given, the default) names no registered
\* provider
Unregistered(pid) ==
    (IF pid = "" THEN default_provider_id ELSE pid) \notin DOMAIN providers

\* the call raised and nothing changed
RaisedConfigurationError ==
    /\ lastOp'.ret = "ValueError"
    /\ UNCHANGED <<mvars, pvars, waiters, inflight, cb_calls>>

\* C24: request_humanloop, continue_humanloop, check_request_status,
\* check_conversation_status, cancel_request, cancel_conversation,
\* get_provider and set_default_provider raise a configuration error when
\* the provider id is not registered, or none is given and there is no
\* default; no provider is called and no registry, index, timer, callback
\* or the default provider changes.
C24_UnknownProviderRaises ==
    [][\A pid \in CfgPids :
         Unregistered(pid) =>
           /\ CfgRequestWith(pid) => RaisedConfigurationError
           /\ CfgContinueWith(pid) => RaisedConfigurationError
           /\ (\E c \in SConvs, r \in KnownIds(Pool) :
                  MgrCheckRequestStatus(c, r, pid)) => RaisedConfigurationError
           /\ (\E c \in SConvs : MgrCheckConversationStatus(c, pid))
                => RaisedConfigurationError
           /\ (\E c \in SConvs, r \in KnownIds(Pool) :
                  MgrCancelRequest(c, r, pid)) => RaisedConfigurationError
           /\ (\E c \in SConvs : MgrCancelConversation(c, pid))
                => RaisedConfigurationError
           /\ MgrGetProvider(pid) => RaisedConfigurationError
           /\ MgrSetDefaultProvider(pid) => RaisedConfigurationError
      ]_vars

C24_Witness ==
    /\ lastOp.op = "cancel_conversation"
    /\ lastOp.ret = "ValueError"
    /\ lastOp.p = "mail"
    /\ "term" \in DOMAIN providers
    /\ requests["term"] # <<>>
    /\ m_conversation_requests # <<>>

\* the Result of check_request_status called right after the step that
\* returned the request id lastOp'.r to the caller
CheckedAtOnce == ResultOf(requests', lastOp'.p, lastOp'.c, lastOp'.r)

\* C26 (as stated): a non-blocking request_humanloop immediately followed
\* by check_request_status on the returned id returns the requested
\* conversation_id and loop_type and status PENDING.
C26_RoundTripPending ==
    [][/\ \A loop_type \in HumanLoopType, pid \in PidInputs,
             recipient \in BOOLEAN :
            (ErrRequestOf(loop_type, pid, recipient) /\ inflight' = inflight)
            => /\ CheckedAtOnce.conversation_id = lastOp'.c
               /\ CheckedAtOnce.loop_type = loop_type
               /\ CheckedAtOnce.status = "PENDING"
       /\ \A a \in inflight, success \in BOOLEAN :
            EmailSendDone(a, success)
            => /\ CheckedAtOnce.conversation_id = a.c
               /\ CheckedAtOnce.loop_type = a.loop_type
               /\ CheckedAtOnce.status = "PENDING"
      ]_vars

\* C26 (amended): a non-blocking request_humanloop immediately followed by
\* check_request_status on the returned id returns the requested
\* conversation_id; when the provider engaged its channel the status is
\* PENDING and the loop_type the requested one; when the e-mail could not
\* be sent the status is ERROR with the requested loop_type; when the
\* recipient is missing nothing was stored and the check reports ERROR
\* with loop_type CONVERSATION.
C26_RoundTripPendingOrError ==
    [][/\ \A loop_type \in HumanLoopType, pid \in PidInputs,
             recipient \in BOOLEAN :
            (ErrRequestOf(loop_type, pid, recipient) /\ inflight' = inflight)
            => /\ lastOp'.ret = "request_id"
               /\ CheckedAtOnce.conversation_id = lastOp'.c
               /\ IF ProviderOf(pid) = "mail"
                  THEN /\ CheckedAtOnce.status = "ERROR"
                       /\ CheckedAtOnce.loop_type = "CONVERSATION"
                  ELSE /\ CheckedAtOnce.status = "PENDING"
                       /\ CheckedAtOnce.loop_type = loop_type
       /\ \A a \in inflight, success \in BOOLEAN :
            EmailSendDone(a, success)
            => /\ lastOp'.ret = "request_id"
               /\ CheckedAtOnce.conversation_id = a.c
               /\ CheckedAtOnce.loop_type = a.loop_type
               /\ CheckedAtOnce.status = IF success THEN "PENDING" ELSE "ERROR"
      ]_vars

C26_Witness ==
    /\ lastOp.op = "check_request_status"
    /\ lastOp.p = "mail"
    /\ lastOp.ret = "ERROR"
    /\ lastOp.r # EmptyId
    /\ <<lastOp.c, lastOp.r>> \in DOMAIN requests["mail"]
    /\ requests["mail"][<<lastOp.c, lastOp.r>>].loop_type = "APPROVAL"
    /\ handlers = <<>>

----------------------------------------------------------------------------
(* Providers called directly: request_humanloop *)

\* provider.request_humanloop(task_id, conversation_id, loop_type, ...) of
\* TerminalProvider and EmailProvider
ProvRequestHumanloop(p, c, task_id, loop_type, timeout, recipient) ==
    LET a == Call("provider.request_humanloop", task_id, c, loop_type, FALSE,
                  p, timeout, FALSE, nextId)
    IN
    /\ nextId \in ConvPool
    /\ UNCHANGED <<mvars, waiters, cb_calls>>
    /\ IF p = "term"
       THEN /\ TerminalCreate(c, nextId, task_id, loop_type, timeout)
            /\ inflight' = inflight
            /\ lastOp' = ProviderResult(a.op, p,
                             Outcome(c, nextId, loop_type, "PENDING", "none"))
       ELSE IF ~recipient
       THEN /\ EmailNoRecipient
            /\ inflight' = inflight
            /\ lastOp' = ProviderResult(a.op, p,
                             Outcome(c, nextId, loop_type, "ERROR",
                                     "Recipient email address is missing"))
       ELSE /\ EmailCreate(c, nextId, task_id, loop_type, timeout)
            /\ inflight' = inflight \cup {a}
            /\ lastOp' = lastOp

\* provider.cancel_request(conversation_id, request_id)
ProvCancelRequestCall(p, c, r) ==
    /\ ProvCancelRequest(p, c, r)
    /\ lastOp' = Returned("provider.cancel_request", c, r, p,
                          Bool(CancelRequestFound(p, <<c, r>>)), "none",
                          FALSE, FALSE, StatusOf(p, <<c, r>>))
    /\ UNCHANGED <<mvars, waiters, inflight, cb_calls>>

ProvRequest ==
    \E p \in ProviderIds, c \in SConvs, task_id \in STasks, loop_type \in HumanLoopType, timeout \in Timeouts, recipient \in BOOLEAN :
        ProvRequestHumanloop(p, c, task_id, loop_type, timeout, recipient)

ProvSendDone ==
    \E a \in inflight, success \in BOOLEAN : ProvEmailSendDone(a, success)

ProvCancel ==
    \E p \in ProviderIds, c \in SConvs, r \in ConvPool :
        <<c, r>> \in DOMAIN requests[p] /\ ProvCancelRequestCall(p, c, r)

NextProv ==
    \/ ProvRequest
    \/ ProvSendDone
    \/ ProvCancel
    \/ ProviderTimer
    \/ TerminalAnswer
    \/ TerminalRejectReason
    \/ EmailLoop
    \/ EmailAnswer

SpecProv == Init /\ [][NextProv]_vars

\* the Result in lastOp' is PENDING, or ERROR with a message and then the
\* stored request (if any) is ERROR with no timer and no checker started
PendingOrCleanError ==
    LET p == lastOp'.p
        key == <<lastOp'.c, lastOp'.r>>
    IN
    /\ lastOp'.op = "provider.request_humanloop"
    /\ lastOp'.ret \in {"PENDING", "ERROR"}
    /\ lastOp'.ret = "ERROR"
       => /\ lastOp'.was # "none"
          /\ key \in DOMAIN requests'[p] => requests'[p][key].status = "ERROR"
          /\ key \notin DOMAIN p_timeout_tasks'[p]
          /\ \A t \in p_timers' : ~(t.p = p /\ t.key = key)
          /\ lastOp'.r \notin DOMAIN handlers'

\* C27: provider.request_humanloop returns PENDING, or ERROR with a message
\* when the channel could not be engaged (missing recipient, e-mail not
\* sent); it never returns another status and never raises; in the ERROR
\* case the stored request, if any, is ERROR and no timer or background
\* checker was started for it.
C27_RequestPendingOrError ==
    [][/\ \A p \in ProviderIds, loop_type \in HumanLoopType,
             timeout \in Timeouts, recipient \in BOOLEAN :
            ((\E c \in SConvs, task_id \in STasks :
                 ProvRequestHumanloop(p, c, task_id, loop_type, timeout,
                                      recipient))
             /\ inflight' = inflight)
            => /\ PendingOrCleanError
               /\ lastOp'.ret = "ERROR" <=> (p = "mail" /\ ~recipient)
       /\ \A a \in inflight, success \in BOOLEAN :
            ProvEmailSendDone(a, success)
            => /\ PendingOrCleanError
               /\ lastOp'.ret = "ERROR" <=> ~success
      ]_vars

C27_Witness ==
    /\ lastOp.op = "provider.request_humanloop"
    /\ lastOp.ret = "ERROR"
    /\ lastOp.was = "Failed to send email"
    /\ <<lastOp.c, lastOp.r>> \in DOMAIN requests["mail"]
    /\ requests["mail"][<<lastOp.c, lastOp.r>>].timeout # 0
    /\ requests["mail"][<<lastOp.c, lastOp.r>>].status = "ERROR"

----------------------------------------------------------------------------
(* A blocking request nobody answers *)

\* Scope of SpecLive: one blocking request with a timeout on a working
\* channel; the human never answers (no terminal input, no mail arrives)
LiveRequest ==
    \E task_id \in STasks, c \in SConvs, loop_type \in HumanLoopType, cb \in BOOLEAN, pid \in PidInputs :
        MgrRequestHumanloop(Pool, task_id, c, loop_type, cb, pid, 5, TRUE, TRUE)

LiveSendDone == \E a \in inflight : EmailSendDone(a, TRUE)

LiveNoMail == \E r \in DOMAIN handlers : EmailFetched(r, "none")

NextLive ==
    \/ LiveRequest
    \/ LiveSendDone
    \/ Poll
    \/ ProviderTimer
    \/ ManagerTimer
    \/ EmailLoop
    \/ LiveNoMail

\* the event loop runs every ready coroutine: a timeout_task whose sleep is
\* over and a _wait_for_result whose poll_interval has passed
SpecLive ==
    /\ Init /\ [][NextLive]_vars
    /\ WF_vars(Poll) /\ WF_vars(ProviderTimer) /\ WF_vars(ManagerTimer)

\* C28: a blocking request_humanloop with a timeout that the human never
\* answers eventually returns, and what it returns is a Result with status
\* EXPIRED, not an exception.
C28_BlockingExpires ==
    /\ (waiters # {}) ~> (/\ waiters = {}
                          /\ lastOp.op = "request_humanloop"
                          /\ lastOp.blocking
                          /\ lastOp.ret = "EXPIRED")
    /\ [](lastOp.blocking => lastOp.ret = "EXPIRED")

C28_Witness ==
    /\ lastOp.op = "request_humanloop"
    /\ lastOp.blocking
    /\ lastOp.ret = "EXPIRED"
    /\ lastOp.p = "mail"
    /\ waiters = {}
    /\ StatusOf("mail", <<lastOp.c, lastOp.r>>) = "EXPIRED"

----------------------------------------------------------------------------
(* Conversations and the tasks they belong to *)

\* Scope of SpecBind: requests that name any task and any conversation,
\* followed by continuations, on either provider
BindRequest ==
    \E task_id \in Tasks, c \in Convs, pid \in PidInputs :
        MgrRequestHumanloop(ConvPool, task_id, c, "CONVERSATION", FALSE, pid, 0, FALSE, TRUE)

BindContinue ==
    \E c \in Convs, pid \in PidInputs :
        MgrContinueHumanloop(ConvPool, c, FALSE, pid, 0, FALSE, TRUE)

NextBind ==
    \/ BindRequest
    \/ BindContinue
    \/ SendDone

SpecBind == Init /\ [][NextBind]_vars

\* the tasks whose conversation set in _task_conversations holds c
TasksOf(c) ==
    {task_conversations[i].task :
        i \in {j \in 1..Len(task_conversations) : c \in task_conversations[j].convs}}

\* C29: every conversation is bound to exactly one task: a conversation id
\* is in the conversation set of at most one task, and every request the
\* manager recorded for the conversation maps to that task in _request_task.
C29_OneTaskPerConversation ==
    \A c \in Convs :
        /\ Cardinality(TasksOf(c)) <= 1
        /\ \A t \in TasksOf(c) :
             \A i \in 1..Len(ListOf(m_conversation_requests, c)) :
                LET key == <<c, m_conversation_requests[c][i]>> IN
                key \in DOMAIN request_task /\ request_task[key] = t

----------------------------------------------------------------------------
(* Continuations that overlap *)

\* Scope of SpecRace: a conversation is opened on a provider and continued
\* twice; a continuation on the EmailProvider is suspended in _send_email
\* while the next one starts
RacePool == {1, 2, 3}

RaceRequest ==
    \E p \in ProviderIds, c \in Convs, task_id \in STasks :
        /\ nextId = 1
        /\ ProvRequestHumanloop(p, c, task_id, "CONVERSATION", 0, TRUE)

RaceContinue ==
    \E p \in ProviderIds, c \in Convs :
        ProvContinueFrom(RacePool, p, c, 0, TRUE)

RaceSendDone == \E a \in inflight, success \in BOOLEAN : ProvEmailSendDone(a, success)

NextRace ==
    \/ RaceRequest
    \/ RaceContinue
    \/ RaceSendDone
    \/ EmailLoop
    \/ EmailAnswer

SpecRace == Init /\ [][NextRace]_vars

\* the continue_humanloop calls on conversation c of provider p that are
\* suspended in _send_email
Suspended(p, c) ==
    {a \in inflight : a.op = "provider.continue_humanloop" /\ a.p = p /\ a.c = c}

NoDuplicates(list) ==
    \A i, j \in 1..Len(list) : list[i] = list[j] => i = j

\* C30: when two continue_humanloop calls on one conversation overlap, both
\* requests are created and appended to the conversation's request list,
\* nothing recorded before is lost or duplicated, and latest_request_id is
\* the id that was stored last, whichever call finishes first.
C30_InterleavedContinues ==
    [][\A p \in ProviderIds, c \in Convs :
        LET before == conversation_requests[p][c]
            after == conversation_requests'[p][c]
        IN
        /\ IsPrefix(before, after)
        /\ NoDuplicates(after)
        /\ c \in DOMAIN conversations'[p]
             => /\ after # <<>>
                /\ conversations'[p][c].latest_request_id = after[Len(after)]
        /\ \A r \in RacePool :
             <<c, r>> \in DOMAIN requests'[p] <=> \E i \in 1..Len(after) : after[i] = r
        /\ \A a \in Suspended(p, c)' :
             /\ \E i \in 1..Len(after) : after[i] = a.r
             /\ a \notin inflight => after = Append(before, a.r)
        /\ Suspended(p, c) # {} /\ Suspended(p, c)' \subseteq Suspended(p, c)
             => after = before
      ]_vars

\* the continuation stored second has returned, the one stored first is
\* still sending, and the conversation lists both after its first request
C30_Witness ==
    /\ lastOp.op = "provider.continue_humanloop"
    /\ lastOp.p = "mail"
    /\ lastOp.c = "c1"
    /\ lastOp.r = 3
    /\ \E a \in Suspended("mail", "c1") : a.r = 2
    /\ conversation_requests["mail"]["c1"] = <<1, 2, 3>>
    /\ conversations["mail"]["c1"].latest_request_id = 3

----------------------------------------------------------------------------
(* Cancellations the provider does not carry out *)

\* manager.cancel_request when the awaited provider.cancel_request raises:
\* everything before the await has run, the exception reaches the caller
MgrCancelRequestRaises(c, r, pid) ==
    LET key == <<c, r>> IN
    IF ~ProviderFound(pid) THEN RaiseValueError("cancel_request", c, r, pid)
    ELSE /\ m_timers' = MCancelled(m_timers, key)
         /\ m_timeout_tasks' = Del(m_timeout_tasks, key)
         /\ callbacks' = callbacks \ {key}
         /\ request_task' = Del(request_task, key)
         /\ m_conversation_requests' =
              IF c \in DOMAIN m_conversation_requests
              THEN [m_conversation_requests EXCEPT ![c] = RemoveFirst(@, r)]
              ELSE m_conversation_requests
         /\ lastOp' = Returned("cancel_request", c, r, ProviderOf(pid), "Exception", "none", FALSE, FALSE, StatusOf(ProviderOf(pid), key))
         /\ UNCHANGED <<providers, default_provider_id, task_conversations, pvars, waiters, inflight, cb_calls>>

\* manager.cancel_conversation when provider.cancel_conversation raises
MgrCancelConversationRaises(c, pid) ==
    LET dropped == [i \in 1..Len(task_conversations) |->
                      [task_conversations[i] EXCEPT !.convs = @ \ {c}]]
    IN
    IF ~ProviderFound(pid) THEN RaiseValueError("cancel_conversation", c, 0, pid)
    ELSE /\ m_timers' = {t \in m_timers :
                ~(/\ t.key[1] = c /\ t.key \in DOMAIN m_timeout_tasks
                  /\ t.gen = m_timeout_tasks[t.key])}
         /\ m_timeout_tasks' = [k \in {x \in DOMAIN m_timeout_tasks : x[1] # c}
                                 |-> m_timeout_tasks[k]]
         /\ callbacks' = {k \in callbacks : k[1] # c}
         /\ task_conversations' = SelectSeq(dropped, LAMBDA e : e.convs # {})
         /\ request_task' =
              [k \in {x \in DOMAIN request_task :
                        ~(x[1] = c /\
                          x[2] \in SeqElems(ListOf(m_conversation_requests, c)))}
                 |-> request_task[k]]
         /\ m_conversation_requests' = Del(m_conversation_requests, c)
         /\ lastOp' = Returned("cancel_conversation", c, 0, ProviderOf(pid), "Exception", "none", FALSE, FALSE, "none")
         /\ UNCHANGED <<providers, default_provider_id, pvars, waiters, inflight, cb_calls>>

\* Scope of SpecFail: one approval request with or without callback and
\* timeout, cancelled through the manager on the provider that serves it or
\* on the other one, by calls that return or raise
NextFail ==
    \/ \E task_id \in STasks, c \in SConvs, cb \in BOOLEAN, pid \in PidInputs, timeout \in Timeouts :
          MgrRequestHumanloop(Pool, task_id, c, "APPROVAL", cb, pid, timeout, FALSE, TRUE)
    \/ SendDone
    \/ CancelRequest
    \/ CancelConversation
    \/ \E c \in SConvs, r \in KnownIds(Pool), pid \in PidInputs : MgrCancelRequestRaises(c, r, pid)
    \/ \E c \in SConvs, pid \in PidInputs : MgrCancelConversationRaises(c, pid)
    \/ ManagerTimer
    \/ ProviderTimer
    \/ TerminalAnswer

SpecFail == Init /\ [][NextFail]_vars

\* the manager's bookkeeping for one request: handle, timer, callback, indices
ManagerHolds(key) ==
    \/ key \in DOMAIN m_timeout_tasks
    \/ \E t \in m_timers : t.key = key
    \/ key \in callbacks
    \/ key \in DOMAIN request_task
    \/ key[2] \in SeqElems(ListOf(m_conversation_requests, key[1]))

\* C31: cancel_request and cancel_conversation clean the manager up before
\* they call the provider: when the provider's cancel returns false or
\* raises, the manager holds no timeout handle, pending timer, callback or
\* index entry for the cancelled request(s).
C31_CleanupBeforeDelegation ==
    [][(/\ lastOp' # lastOp
        /\ lastOp'.op \in {"cancel_request", "cancel_conversation"}
        /\ lastOp'.ret \in {"false", "Exception"})
       => \A c \in Convs :
            lastOp'.c = c
            => IF lastOp'.op = "cancel_request"
               THEN \A r \in 0..MaxReq :
                      lastOp'.r = r => (~ManagerHolds(<<c, r>>))'
               ELSE /\ \A r \in 0..MaxReq : (~ManagerHolds(<<c, r>>))'
                    /\ c \notin DOMAIN m_conversation_requests'
                    /\ (TasksOf(c))' = {}
      ]_vars

\* a request with a callback and a timeout is pending on the terminal; its
\* cancellation was sent to the other provider, which answered false
C31_Witness ==
    /\ lastOp.op = "cancel_request"
    /\ lastOp.ret = "false"
    /\ lastOp.p = "mail"
    /\ lastOp.r = 1
    /\ StatusOf("term", <<lastOp.c, 1>>) = "PENDING"
    /\ <<lastOp.c, 1>> \in DOMAIN p_timeout_tasks["term"]
    /\ cb_calls[<<lastOp.c, 1>>] = NoCalls
    /\ ~ManagerHolds(<<lastOp.c, 1>>)

----------------------------------------------------------------------------
(* Lookups are reads *)

\* C32: provider.check_request_status and check_conversation_status only
\* read the provider's store: a lookup changes no request, conversation,
\* request list, timeout registry or channel task, and the same lookup made
\* again right after it returns an equal Result.
C32_LookupsArePure ==
    [][(/\ lastOp' # lastOp
        /\ lastOp'.op \in {"provider.check_request_status", "provider.check_conversation_status"})
       => /\ UNCHANGED <<requests, conversations, conversation_requests, p_timeout_tasks, p_timers, handlers>>
          /\ \A p \in ProviderIds, c \in Convs, r \in 0..MaxReq :
               (lastOp'.p = p /\ lastOp'.c = c /\ lastOp'.r = r)
               => lastOp' = IF lastOp'.op = "provider.check_request_status"
                            THEN (ProviderResult("provider.check_request_status", p, check_request_status(p, c, r)))'
                            ELSE (ProviderResult("provider.check_conversation_status", p, check_conversation_status(p, c)))'
      ]_vars

\* a lookup has reported a request a human is still talking to
C32_Witness ==
    /\ lastOp.op \in {"provider.check_request_status", "provider.check_conversation_status"}
    /\ lastOp.r # EmptyId
    /\ lastOp.ret = "INPROGRESS"
    /\ StatusOf(lastOp.p, <<lastOp.c, lastOp.r>>) = "INPROGRESS"

----------------------------------------------------------------------------
(* Loop types and the statuses an answer gives them *)

\* Scope of SpecType: requests of every loop type and continuations on
\* either provider, answered on the terminal or by mail
NextType ==
    \/ \E task_id \in STasks, c \in SConvs, loop_type \in HumanLoopType, pid \in PidInputs :
          MgrRequestHumanloop(ConvPool, task_id, c, loop_type, FALSE, pid, 0, FALSE, TRUE)
    \/ HistContinue
    \/ SendDone
    \/ TerminalAnswer
    \/ TerminalRejectReason
    \/ EmailLoop
    \/ EmailAnswer

SpecType == Init /\ [][NextType]_vars

\* C33: a request's status fits its loop type: an APPROVAL request is never
\* COMPLETED and the step that records a human's answer to it leaves it
\* APPROVED or REJECTED; an INFORMATION or CONVERSATION request is never
\* APPROVED or REJECTED; a request created by continue_humanloop is a
\* CONVERSATION request.
C33_StatusFitsLoopType ==
    [][/\ \A p \in ProviderIds : \A key \in DOMAIN requests'[p] :
            LET info == requests'[p][key] IN
            /\ info.loop_type = "APPROVAL"
                 => /\ info.status # "COMPLETED"
                    /\ (/\ key \in DOMAIN requests[p]
                         /\ requests[p][key].responded_at = 0
                         /\ info.responded_at # 0)
                        => info.status \in {"APPROVED", "REJECTED"}
            /\ info.loop_type \in {"INFORMATION", "CONVERSATION"}
                 => info.status \notin {"APPROVED", "REJECTED"}
       /\ \A a \in inflight' \ inflight :
            a.op = "continue_humanloop"
            => requests'[a.p][<<a.c, a.r>>].loop_type = "CONVERSATION"
       /\ (/\ lastOp' # lastOp
            /\ lastOp'.op = "continue_humanloop"
            /\ lastOp'.p \in ProviderIds
            /\ lastOp'.r # EmptyId)
           => \A p \in ProviderIds : \A key \in DOMAIN requests'[p] \ DOMAIN requests[p] :
                requests'[p][key].loop_type = "CONVERSATION"
      ]_vars

\* an approval was granted by mail and the conversation was then continued
\* on the same provider
C33_Witness ==
    /\ StatusOf("mail", <<"c1", 1>>) = "APPROVED"
    /\ requests["mail"][<<"c1", 1>>].loop_type = "APPROVAL"
    /\ <<"c1", 2>> \in DOMAIN requests["mail"]
    /\ requests["mail"][<<"c1", 2>>].loop_type = "CONVERSATION"
    /\ requests["mail"][<<"c1", 2>>].responded_at # 0

\* C34: only CONVERSATION requests are ever INPROGRESS: an APPROVAL or
\* INFORMATION request is PENDING or in a final status in every state, also
\* while the terminal waits for a rejection reason or asks again.
C34_OnlyConversationInProgress ==
    \A p \in ProviderIds : \A key \in DOMAIN requests[p] :
        requests[p][key].status = "INPROGRESS"
        => requests[p][key].loop_type = "CONVERSATION"

----------------------------------------------------------------------------
(* LangGraphAdapter.require_approval *)

async_wrapper_lenient(status, execute_on_reject) ==
    IF status = "REJECTED" /\ ~execute_on_reject THEN "raised" ELSE "executed"

\* what async_wrapper does with the Result of its blocking request:
\* "executed": fn is called; "raised": ValueError; "skipped": it falls off
\* the end of the if-chain and returns None
async_wrapper(status, execute_on_reject) ==
    IF status = "APPROVED" THEN "executed"
    ELSE IF status = "REJECTED"
    THEN IF execute_on_reject THEN "executed" ELSE "raised"
    ELSE "skipped"

\* the blocking request_humanloop of async_wrapper has returned a Result;
\* the field err of the record holds execute_on_reject
ApproveCliReturn(execute_on_reject) ==
    /\ lastOp.op = "request_humanloop"
    /\ lastOp.blocking
    /\ lastOp' = Returned("require_approval", lastOp.c, lastOp.r, lastOp.p, async_wrapper(lastOp.ret, execute_on_reject), lastOp.resp, TRUE, execute_on_reject, lastOp.ret)
    /\ UNCHANGED <<mvars, pvars, waiters, inflight, cb_calls>>

\* Scope of SpecApprove: one wrapped call: a blocking APPROVAL request that
\* is answered, cancelled, fails or times out
NextApprove ==
    \/ \E task_id \in STasks, c \in SConvs, cb \in BOOLEAN, pid \in PidInputs, recipient \in BOOLEAN :
          MgrRequestHumanloop(Pool, task_id, c, "APPROVAL", cb, pid, 5, TRUE, recipient)
    \/ \E execute_on_reject \in BOOLEAN : ApproveCliReturn(execute_on_reject)
    \/ SendDone
    \/ Poll
    \/ CancelRequest
    \/ ProviderTimer
    \/ ManagerTimer
    \/ TerminalAnswer
    \/ TerminalRejectReason
    \/ EmailLoop
    \/ EmailAnswer

SpecApprove == Init /\ [][NextApprove]_vars

\* C35: the function wrapped by require_approval runs only after the
\* blocking approval request returned APPROVED, or REJECTED with
\* execute_on_reject; REJECTED without it makes the wrapper raise; after any
\* other status (EXPIRED, ERROR, CANCELLED, INPROGRESS) the function is not
\* run.
C35_ExecutesOnlyWhenApproved ==
    lastOp.op = "require_approval"
    => /\ lastOp.ret = "executed"
            <=> \/ lastOp.was = "APPROVED"
                \/ (lastOp.was = "REJECTED" /\ lastOp.err)
       /\ (lastOp.was = "REJECTED" /\ ~lastOp.err) => lastOp.ret = "raised"
       /\ lastOp.was \in {"EXPIRED", "ERROR", "CANCELLED", "INPROGRESS"}
            => lastOp.ret \notin {"executed", "raised"}

\* the request timed out and the wrapper returned without running fn
C35_Witness ==
    /\ lastOp.op = "require_approval"
    /\ lastOp.was = "EXPIRED"
    /\ lastOp.ret = "skipped"
    /\ StatusOf(lastOp.p, <<lastOp.c, lastOp.r>>) = "EXPIRED"

----------------------------------------------------------------------------
(* Generated provider ids *)

\* C36: register_provider without an id never overwrites a registration:
\* the id it generates is not yet in the registry, after any earlier
\* registrations with given or generated ids, and the registry grows by one.
C36_GeneratedIdFresh ==
    [][(/\ lastOp' # lastOp
        /\ lastOp'.op = "register_provider"
        /\ lastOp'.was = "generated")
       => /\ lastOp'.p \notin DOMAIN providers
          /\ Cardinality(DOMAIN providers') = Cardinality(DOMAIN providers) + 1
      ]_vars

----------------------------------------------------------------------------
(* What the manager records about failed calls *)

\* the provider stores in which the request key exists
StoredIn(key) == {p \in ProviderIds : key \in DOMAIN requests[p]}

\* C37: every request id in the manager's conversation index is the
\* non-empty id of a request some provider stores, and so is every key that
\* has a callback or a timeout handle: a call whose provider returned an
\* ERROR Result without creating a request leaves no entry in the manager.
C37_IndexHoldsStoredRequests ==
    /\ \A c \in DOMAIN m_conversation_requests :
         \A r \in SeqElems(m_conversation_requests[c]) :
            r # EmptyId /\ StoredIn(<<c, r>>) # {}
    /\ \A key \in callbacks \cup DOMAIN m_timeout_tasks \cup DOMAIN request_task :
         key[2] # EmptyId /\ StoredIn(key) # {}

----------------------------------------------------------------------------
(* The manager's request list and the provider's *)

\* C38: once no call is suspended any more, the manager's request list of a
\* conversation equals the provider's creation-ordered list and ends with
\* the provider's latest_request_id, however request_humanloop and
\* continue_humanloop calls on the conversation interleaved. Stated for
\* conversations one provider serves and calls that all created a request.
C38_ManagerListMatchesProvider ==
    \A c \in DOMAIN m_conversation_requests : \A p \in ProviderIds :
        (/\ inflight = {}
         /\ ServedBy(c) = {p}
         /\ EmptyId \notin SeqElems(m_conversation_requests[c]))
        => /\ m_conversation_requests[c] = conversation_requests[p][c]
           /\ conversations[p][c].latest_request_id
                = m_conversation_requests[c][Len(m_conversation_requests[c])]

----------------------------------------------------------------------------
(* Silence after a cancellation *)

\* no callback is registered for key and no timeout_task of the manager that
\* holds one is pending
Quiet(key) ==
    /\ key \notin callbacks
    /\ ~\E t \in m_timers : t.key = key /\ t.cb

\* C39: after manager.cancel_request or manager.cancel_conversation has
\* returned, the callback of a cancelled request is never notified again:
\* the cancel leaves no registration and no pending timer that could call
\* it, and no later step (a timer, a status check, a call that returns)
\* delivers an update, timeout or error to a request that is CANCELLED.
C39_NoNotificationAfterCancel ==
    [][/\ (/\ lastOp' # lastOp
            /\ lastOp'.op \in {"cancel_request", "cancel_conversation"}
            /\ lastOp'.ret # "ValueError")
           => \A c \in Convs, r \in 0..MaxReq :
                (lastOp'.c = c /\ (lastOp'.op = "cancel_conversation" \/ lastOp'.r = r))
                => (Quiet(<<c, r>>))'
       /\ \A key \in Keys :
            (\E p \in ProviderIds : StatusOf(p, key) = "CANCELLED")
            => cb_calls'[key] = cb_calls[key]
      ]_vars

----------------------------------------------------------------------------
(* One timer per key and registry *)

\* Scope of SpecStack: conversations whose requests and continuations carry
\* a timeout and a callback, continuations of unknown conversations included
NextStack ==
    \/ \E task_id \in STasks, c \in SConvs, cb \in BOOLEAN, pid \in PidInputs, timeout \in Timeouts :
          MgrRequestHumanloop(ConvPool, task_id, c, "CONVERSATION", cb, pid, timeout, FALSE, TRUE)
    \/ \E c \in SConvs, cb \in BOOLEAN, pid \in PidInputs, timeout \in Timeouts :
          MgrContinueHumanloop(ConvPool, c, cb, pid, timeout, FALSE, TRUE)
    \/ SendDone
    \/ ProviderTimer
    \/ ManagerTimer
    \/ TerminalAnswer

SpecStack == Init /\ [][NextStack]_vars

\* C40: in the manager's and in each provider's timeout registry a key has
\* at most one pending timer, and that timer is the handle the registry maps
\* the key to: a renewal replaces the timer, nothing stacks a second one,
\* and cancelling the registered handle stops the only pending timer.
C40_OneTimerPerKey ==
    /\ \A t \in m_timers :
         /\ t.key \in DOMAIN m_timeout_tasks
         /\ m_timeout_tasks[t.key] = t.gen
         /\ \A u \in m_timers : u.key = t.key => u.gen = t.gen
    /\ \A t \in p_timers :
         /\ t.key \in DOMAIN p_timeout_tasks[t.p]
         /\ p_timeout_tasks[t.p][t.key] = t.gen
         /\ \A u \in p_timers : (u.p = t.p /\ u.key = t.key) => u.gen = t.gen
====
